---------------------------- MODULE Spec2Model ----------------------------
(***************************************************************************)
(* A model of the ca-formats decoders (Extended RLE, Plaintext, Wechsler / *)
(* apgcode, Macrocell).  Every decoder is a pull-based state machine over  *)
(* a sequence of lines; a line is a sequence of bytes (0..255).  One       *)
(* action models one call of the decoder's next().                         *)
(*                                                                         *)
(* Option<T> is modelled as a sequence of length 0 (None) or 1 (Some).     *)
(***************************************************************************)
EXTENDS Integers, Sequences, FiniteSets, TLC

VARIABLES
    dec,        \* which decoder this run constructs: "rle", "plaintext", "wechsler", "macrocell",
                \* "apgcode"
    input,      \* the lines handed to the constructor (never changes)
    toks,       \* the run-length tokens the RLE body was rendered from (never changes)
    rle,        \* Option<Rle>: the Rle struct, None when construction failed or not an rle run
    plaintext,  \* Option<Plaintext>
    wechsler,   \* Option<Wechsler>
    macrocell,  \* Option<Macrocell>
    apgcode,    \* Option<ApgCode>
    newres,     \* the Result of the last construction (new / remains)
    out,        \* the items returned by the pulls on the current decoder, in order
    docs        \* the finished decoders of this run: one record per remains() call

vars == <<dec, input, toks, rle, plaintext, wechsler, macrocell, apgcode, newres, out, docs>>

---------------------------------------------------------------------------
(* Bytes and strings                                                       *)

AsciiChars ==
    << " ", "!", "dquote", "#", "$", "%", "&", "'", "(", ")", "*", "+", ",", "-", ".", "/",
       "0", "1", "2", "3", "4", "5", "6", "7", "8", "9", ":", ";", "<", "=", ">", "?",
       "@", "A", "B", "C", "D", "E", "F", "G", "H", "I", "J", "K", "L", "M", "N", "O",
       "P", "Q", "R", "S", "T", "U", "V", "W", "X", "Y", "Z", "[", "bslash", "]", "^", "_",
       "bquote", "a", "b", "c", "d", "e", "f", "g", "h", "i", "j", "k", "l", "m", "n", "o",
       "p", "q", "r", "s", "t", "u", "v", "w", "x", "y", "z", "{", "|", "}", "~" >>

\* The byte value of a printable ASCII character: Ord["b"] = 98 is the byte literal of the letter b.
Ord == [c \in {AsciiChars[i] : i \in 1..Len(AsciiChars)} |->
            31 + (CHOOSE i \in 1..Len(AsciiChars) : AsciiChars[i] = c)]

\* A string literal as bytes: Str(<<"b", "o">>) is "bo".bytes().
Str(cs) == [i \in 1..Len(cs) |-> Ord[cs[i]]]

Some(v) == <<v>>
None == <<>>
IsSome(o) == Len(o) = 1
Unwrap(o) == o[1]

\* u8::is_ascii_digit
IsAsciiDigit(c) == c \in Ord["0"]..Ord["9"]

\* u8::is_ascii_whitespace: space, \t, \n, form feed, \r
IsAsciiWhitespace(c) == c \in {32, 9, 10, 12, 13}

\* \s of the regex crate, on ASCII: the above and vertical tab
IsRegexSpace(c) == c \in {32, 9, 10, 11, 12, 13}

\* str::starts_with
StartsWith(line, prefix) ==
    /\ Len(line) >= Len(prefix)
    /\ SubSeq(line, 1, Len(prefix)) = prefix

\* The sequence from position i on.
From(s, i) == SubSeq(s, i, Len(s))

\* The position of the first byte at or after i that is no regex space (Len+1 if none): \s*
RECURSIVE SkipSpace(_, _)
SkipSpace(l, i) ==
    IF i <= Len(l) /\ IsRegexSpace(l[i]) THEN SkipSpace(l, i + 1) ELSE i

\* The position of the first byte at or after i that is no digit (Len+1 if none): \d*
RECURSIVE SkipDigits(_, _)
SkipDigits(l, i) ==
    IF i <= Len(l) /\ IsAsciiDigit(l[i]) THEN SkipDigits(l, i + 1) ELSE i

\* The value of a string of decimal digits (str::parse on an unsigned type, in range).
RECURSIVE DigitsValue(_)
DigitsValue(ds) ==
    IF ds = <<>> THEN 0
    ELSE 10 * DigitsValue(SubSeq(ds, 1, Len(ds) - 1)) + (ds[Len(ds)] - Ord["0"])

\* str::parse for a signed integer matched by -?\d+
SignedValue(ds) ==
    IF ds[1] = Ord["-"] THEN 0 - DigitsValue(Tail(ds)) ELSE DigitsValue(ds)

\* Whether the literal lit stands at position i of l.
LitAt(l, i, lit) ==
    /\ i + Len(lit) - 1 <= Len(l)
    /\ SubSeq(l, i, i + Len(lit) - 1) = lit


\* u64::MAX in decimal
U64MaxDigits ==
    << 49, 56, 52, 52, 54, 55, 52, 52, 48, 55, 51, 55, 48, 57, 53, 53, 49, 54, 49, 53 >>

\* The digits without their leading zeros.
RECURSIVE StripZeros(_)
StripZeros(ds) == IF ds # <<>> /\ Head(ds) = 48 THEN StripZeros(Tail(ds)) ELSE ds

\* a <= b for two strings of digits of the same length.
RECURSIVE DigitsLeq(_, _)
DigitsLeq(a, b) ==
    IF a = <<>> THEN TRUE
    ELSE IF Head(a) # Head(b) THEN Head(a) < Head(b)
    ELSE DigitsLeq(Tail(a), Tail(b))

\* Whether a string of digits is the decimal of a value up to u64::MAX.
FitsU64(ds) ==
    /\ ds # <<>>
    /\ \/ Len(StripZeros(ds)) < 20
       \/ Len(StripZeros(ds)) = 20 /\ DigitsLeq(StripZeros(ds), U64MaxDigits)

\* The value of a string of digits within u64: a number up to nine digits, beyond that
\* (more than the integers of the model hold) the digits themselves.
U64Value(ds) ==
    IF Len(StripZeros(ds)) <= 9 THEN DigitsValue(StripZeros(ds)) ELSE StripZeros(ds)

\* A faulty variant: the range of u64 is not checked.
ParseU64Unchecked(ds) == Some(U64Value(ds))

\* str::parse::<u64 / usize> on a string of digits: fails on the empty string and
\* above u64::MAX.
ParseU64(ds) == IF FitsU64(ds) THEN Some(U64Value(ds)) ELSE None

\* i64::MAX and the magnitude of i64::MIN in decimal
I64MaxDigits ==
    << 57, 50, 50, 51, 51, 55, 50, 48, 51, 54, 56, 53, 52, 55, 55, 53, 56, 48, 55 >>
I64MinDigits ==
    << 57, 50, 50, 51, 51, 55, 50, 48, 51, 54, 56, 53, 52, 55, 55, 53, 56, 48, 56 >>

\* Whether a string matched by -?\d+ is the decimal of a value within i64.
FitsI64(ds) ==
    LET neg == ds[1] = 45
        mag == StripZeros(IF neg THEN Tail(ds) ELSE ds)
    IN  \/ Len(mag) < 19
        \/ Len(mag) = 19 /\ DigitsLeq(mag, IF neg THEN I64MinDigits ELSE I64MaxDigits)

\* str::parse::<i64> on a string matched by -?\d+: fails outside i64.  The values in
\* range that the inputs hold have at most nine digits.
ParseI64(ds) == IF FitsI64(ds) THEN Some(SignedValue(ds)) ELSE None

\* str::parse::<u8> on a string of digits: fails on the empty string and above 255.
ParseU8(ds) ==
    IF ds # <<>> /\ Len(StripZeros(ds)) <= 3 /\ DigitsValue(StripZeros(ds)) <= 255
    THEN Some(DigitsValue(StripZeros(ds)))
    ELSE None

\* The items a pull returns.
OkCell(pos, st) == [kind |-> "Ok", position |-> pos, state |-> st]
OkCoord(pos) == [kind |-> "Ok", position |-> pos]
ErrItem(e, a) == [kind |-> "Err", error |-> e, arg |-> a]
NoneItem == [kind |-> "None"]
\* The process aborts (an arithmetic overflow in a build with overflow checks).
PanicItem == [kind |-> "Panic"]

\* An item of the line source that Input::line turns into Err(io::Error)
\* (only the buffered readers produce it).
IoErrorItem == <<-1>>
IsIoError(item) == item = IoErrorItem

---------------------------------------------------------------------------
(* Extended RLE: the metadata lines                                        *)

\* One match of Pos\s*=\s*(?P<x>-?\d+),\s*(?P<y>-?\d+) starting at position i.
MatchPos(l, i) ==
    LET eq   == SkipSpace(l, i + 3)
        xs   == SkipSpace(l, eq + 1)
        xd   == IF xs <= Len(l) /\ l[xs] = Ord["-"] THEN xs + 1 ELSE xs
        xe   == SkipDigits(l, xd)
        ys   == SkipSpace(l, xe + 1)
        yd   == IF ys <= Len(l) /\ l[ys] = Ord["-"] THEN ys + 1 ELSE ys
        ye   == SkipDigits(l, yd)
        ok   == /\ LitAt(l, i, Str(<<"P", "o", "s">>))
                /\ eq <= Len(l) /\ l[eq] = Ord["="]
                /\ xe > xd
                /\ xe <= Len(l) /\ l[xe] = Ord[","]
                /\ ye > yd
    IN  IF ok THEN [ok |-> TRUE, end |-> ye, x |-> SubSeq(l, xs, xe - 1), y |-> SubSeq(l, ys, ye - 1)]
        ELSE [ok |-> FALSE]

\* One match of Gen\s*=\s*(?P<gen>\d+) starting at position i.
MatchGen(l, i) ==
    LET eq == SkipSpace(l, i + 3)
        gs == SkipSpace(l, eq + 1)
        ge == SkipDigits(l, gs)
        ok == /\ LitAt(l, i, Str(<<"G", "e", "n">>))
              /\ eq <= Len(l) /\ l[eq] = Ord["="]
              /\ ge > gs
    IN  IF ok THEN [ok |-> TRUE, end |-> ge, gen |-> SubSeq(l, gs, ge - 1)]
        ELSE [ok |-> FALSE]

\* CxrleData::default()
DefaultCxrleData == [pos |-> None, gen |-> None]

\* A faulty variant of the loop over the captures: the first field of each kind is kept.
RECURSIVE CxrleScanKeepsFirst(_, _, _)
CxrleScanKeepsFirst(l, i, data) ==
    IF i > Len(l) THEN Some(data)
    ELSE LET g == MatchGen(l, i)
             p == MatchPos(l, i)
         IN  IF g.ok
             THEN IF IsSome(ParseU64(g.gen))
                  THEN CxrleScanKeepsFirst(l, g.end,
                           IF IsSome(data.gen) THEN data ELSE [data EXCEPT !.gen = ParseU64(g.gen)])
                  ELSE None
             ELSE IF p.ok
             THEN IF IsSome(ParseI64(p.x)) /\ IsSome(ParseI64(p.y))
                  THEN CxrleScanKeepsFirst(l, p.end,
                           IF IsSome(data.pos) THEN data
                           ELSE [data EXCEPT !.pos = Some(<<Unwrap(ParseI64(p.x)), Unwrap(ParseI64(p.y))>>)])
                  ELSE None
             ELSE CxrleScanKeepsFirst(l, i + 1, data)

\* RE.captures_iter(line): the successive non-overlapping matches from position i on,
\* each one stored into data; None when a captured number does not parse.
RECURSIVE CxrleScan(_, _, _)
CxrleScan(l, i, data) ==
    IF i > Len(l) THEN Some(data)
    ELSE LET g == MatchGen(l, i)
             p == MatchPos(l, i)
         IN  IF g.ok
             THEN IF IsSome(ParseU64(g.gen))
                  THEN CxrleScan(l, g.end, [data EXCEPT !.gen = ParseU64(g.gen)])
                  ELSE None
             ELSE IF p.ok
             THEN IF IsSome(ParseI64(p.x)) /\ IsSome(ParseI64(p.y))
                  THEN CxrleScan(l, p.end,
                           [data EXCEPT !.pos = Some(<<Unwrap(ParseI64(p.x)), Unwrap(ParseI64(p.y))>>)])
                  ELSE None
             ELSE CxrleScan(l, i + 1, data)

\* fn parse_cxrle(line: &str) -> Option<CxrleData>
parse_cxrle(line) == CxrleScan(line, 1, DefaultCxrleData)

\* A faulty variant: the blanks at the end of the line are kept.
LastNonSpaceKeepsBlanks(l, i) == i

\* The position of the last byte of l that is no regex space (0 if none).
RECURSIVE LastNonSpace(_, _)
LastNonSpace(l, i) ==
    IF i >= 1 /\ IsRegexSpace(l[i]) THEN LastNonSpace(l, i - 1) ELSE i

\* fn parse_header(line: &str) -> Option<HeaderData>, the regex
\* ^x\s*=\s*(?P<x>\d+),\s*y\s*=\s*(?P<y>\d+)(?:,\s*rule\s*=\s*(?P<rule>.*\S)\s*)?$
parse_header(l) ==
    LET eq1  == SkipSpace(l, 2)
        xs   == SkipSpace(l, eq1 + 1)
        xe   == SkipDigits(l, xs)
        yk   == SkipSpace(l, xe + 1)
        eq2  == SkipSpace(l, yk + 1)
        ys   == SkipSpace(l, eq2 + 1)
        ye   == SkipDigits(l, ys)
        rk   == SkipSpace(l, ye + 1)
        eq3  == SkipSpace(l, rk + 4)
        rs   == SkipSpace(l, eq3 + 1)
        re   == LastNonSpace(l, Len(l))
        xy   == /\ LitAt(l, 1, Str(<<"x">>))
                /\ eq1 <= Len(l) /\ l[eq1] = Ord["="]
                /\ xe > xs
                /\ xe <= Len(l) /\ l[xe] = Ord[","]
                /\ LitAt(l, yk, Str(<<"y">>))
                /\ eq2 <= Len(l) /\ l[eq2] = Ord["="]
                /\ ye > ys
        rule == /\ ye <= Len(l) /\ l[ye] = Ord[","]
                /\ LitAt(l, rk, Str(<<"r", "u", "l", "e">>))
                /\ eq3 <= Len(l) /\ l[eq3] = Ord["="]
                /\ rs <= re
    IN  IF xy /\ ye = Len(l) + 1
             /\ IsSome(ParseU64(SubSeq(l, xs, xe - 1))) /\ IsSome(ParseU64(SubSeq(l, ys, ye - 1)))
        THEN Some([x |-> Unwrap(ParseU64(SubSeq(l, xs, xe - 1))),
                   y |-> Unwrap(ParseU64(SubSeq(l, ys, ye - 1))),
                   rule |-> None])
        ELSE IF xy /\ rule
             /\ IsSome(ParseU64(SubSeq(l, xs, xe - 1))) /\ IsSome(ParseU64(SubSeq(l, ys, ye - 1)))
        THEN Some([x |-> Unwrap(ParseU64(SubSeq(l, xs, xe - 1))),
                   y |-> Unwrap(ParseU64(SubSeq(l, ys, ye - 1))),
                   rule |-> Some(SubSeq(l, rs, re))])
        ELSE None


---------------------------------------------------------------------------
(* Extended RLE: the decoder                                               *)

\* line.starts_with("#CXRLE")
IsCxrleLine(line) == StartsWith(line, Str(<<"#", "C", "X", "R", "L", "E">>))

\* line.starts_with("x ") || line.starts_with("x=")
IsHeaderLine(line) ==
    StartsWith(line, Str(<<"x", " ">>)) \/ StartsWith(line, Str(<<"x", "=">>))

\* line.starts_with('#')
IsCommentLine(line) == StartsWith(line, Str(<<"#">>))

\* A faulty variant of the struct literal: without an origin the pattern is centred
\* on the declared box.
RleInitialCentred(cxrle_data, header_data, lines, current_line) ==
    LET hasPos == IsSome(cxrle_data) /\ IsSome(Unwrap(cxrle_data).pos)
        pos    == IF hasPos THEN Unwrap(Unwrap(cxrle_data).pos)
                  ELSE IF IsSome(header_data)
                  THEN <<0 - (Unwrap(header_data).x \div 2), 0 - (Unwrap(header_data).y \div 2)>>
                  ELSE <<0, 0>>
    IN  [ cxrle_data   |-> cxrle_data,
          header_data  |-> header_data,
          lines        |-> lines,
          current_line |-> current_line,
          position     |-> pos,
          x_start      |-> pos[1],
          run_count    |-> 0,
          alive_count  |-> 0,
          state        |-> 1,
          state_prefix |-> None ]

\* The struct literal at the end of Rle::new: the cursor starts at the origin of the
\* #CXRLE line when there is one, else at (0, 0).
RleInitial(cxrle_data, header_data, lines, current_line) ==
    LET hasPos == IsSome(cxrle_data) /\ IsSome(Unwrap(cxrle_data).pos)
        pos    == IF hasPos THEN Unwrap(Unwrap(cxrle_data).pos) ELSE <<0, 0>>
    IN  [ cxrle_data   |-> cxrle_data,
          header_data  |-> header_data,
          lines        |-> lines,
          current_line |-> current_line,
          position     |-> pos,
          x_start      |-> pos[1],
          run_count    |-> 0,
          alive_count  |-> 0,
          state        |-> 1,
          state_prefix |-> None ]

\* A faulty variant of the loop of Rle::new: the first line of each kind is kept.
RECURSIVE RleNewLoopKeepsFirst(_, _, _)
RleNewLoopKeepsFirst(lines, cxrle_data, header_data) ==
    IF lines = <<>>
    THEN [kind |-> "Ok", value |-> RleInitial(cxrle_data, header_data, lines, None)]
    ELSE LET line == Head(lines)
             rest == Tail(lines)
         IN  IF IsIoError(line) THEN [kind |-> "Err", error |-> "IoError", arg |-> <<>>]
             ELSE IF IsCxrleLine(line)
             THEN IF IsSome(parse_cxrle(line))
                  THEN RleNewLoopKeepsFirst(rest,
                           IF IsSome(cxrle_data) THEN cxrle_data ELSE parse_cxrle(line), header_data)
                  ELSE [kind |-> "Err", error |-> "InvalidCXRLELine", arg |-> line]
             ELSE IF IsHeaderLine(line)
             THEN IF IsSome(parse_header(line))
                  THEN RleNewLoopKeepsFirst(rest, cxrle_data,
                           IF IsSome(header_data) THEN header_data ELSE parse_header(line))
                  ELSE [kind |-> "Err", error |-> "InvalidHeaderLine", arg |-> line]
             ELSE IF ~IsCommentLine(line)
             THEN [kind |-> "Ok", value |-> RleInitial(cxrle_data, header_data, rest, Some(line))]
             ELSE RleNewLoopKeepsFirst(rest, cxrle_data, header_data)

\* The while loop of Rle::new over the leading lines.
RECURSIVE RleNewLoop(_, _, _)
RleNewLoop(lines, cxrle_data, header_data) ==
    IF lines = <<>>
    THEN [kind |-> "Ok", value |-> RleInitial(cxrle_data, header_data, lines, None)]
    ELSE LET line == Head(lines)
             rest == Tail(lines)
         IN  IF IsIoError(line) THEN [kind |-> "Err", error |-> "IoError", arg |-> <<>>]
             ELSE IF IsCxrleLine(line)
             THEN IF IsSome(parse_cxrle(line))
                  THEN RleNewLoop(rest, Some(Unwrap(parse_cxrle(line))), header_data)
                  ELSE [kind |-> "Err", error |-> "InvalidCXRLELine", arg |-> line]
             ELSE IF IsHeaderLine(line)
             THEN IF IsSome(parse_header(line))
                  THEN RleNewLoop(rest, cxrle_data, Some(Unwrap(parse_header(line))))
                  ELSE [kind |-> "Err", error |-> "InvalidHeaderLine", arg |-> line]
             ELSE IF ~IsCommentLine(line)
             THEN [kind |-> "Ok", value |-> RleInitial(cxrle_data, header_data, rest, Some(line))]
             ELSE RleNewLoop(rest, cxrle_data, header_data)

\* pub fn new(input: I) -> Result<Self, Error>
RleNew(lines) == RleNewLoop(lines, None, None)

\* What one call of next() gives: the struct afterwards, the item returned, and whether
\* the u8 addition that resolves the state exceeded 255 (the struct then holds the
\* wrapped value, which is what a build without overflow checks computes).
Step(s, item) == [self |-> s, item |-> item, overflow |-> FALSE]

\* The first branch of next(): a cell of the pending alive run.
RlePending(s) ==
    Step([s EXCEPT !.alive_count = @ - 1, !.position = <<@[1] + 1, @[2]>>],
         OkCell(s.position, s.state))

\* A faulty variant of the dead run: the column moves by one, whatever the count.
RleDeadByOne(s) == [s EXCEPT !.position = <<@[1] + 1, @[2]>>, !.run_count = 0]

\* b'b' | b'.': the dead run
RleDead(s) == [s EXCEPT !.position = <<@[1] + s.run_count, @[2]>>, !.run_count = 0]

\* The state a tag resolves to, before the reduction to 8 bits:
\* 24 * (state_prefix.take().unwrap_or(b'o') - b'o') + (c + 1 - b'A'); b'o' is state 1.
RleState(state_prefix, c) ==
    IF c = Ord["o"] THEN 1
    ELSE 24 * ((IF IsSome(state_prefix) THEN Unwrap(state_prefix) ELSE Ord["o"]) - Ord["o"])
         + (c + 1 - Ord["A"])

\* A faulty variant of the alive run: the cell returned at once is not counted, so a
\* run of n yields n + 1 cells.
RleAliveOffByOne(s, c) ==
    LET st == RleState(s.state_prefix, c)
        s1 == [s EXCEPT !.state = st % 256,
                        !.state_prefix = IF c = Ord["o"] THEN @ ELSE None,
                        !.alive_count = s.run_count,
                        !.run_count = 0,
                        !.position = <<@[1] + 1, @[2]>>]
    IN  [self |-> s1, item |-> OkCell(s.position, st % 256), overflow |-> st > 255]

\* b'o' | b'A'..=b'X': the alive run; returns its first cell.
RleAlive(s, c) ==
    LET st == RleState(s.state_prefix, c)
        s1 == [s EXCEPT !.state = st % 256,
                        !.state_prefix = IF c = Ord["o"] THEN @ ELSE None,
                        !.alive_count = s.run_count - 1,
                        !.run_count = 0,
                        !.position = <<@[1] + 1, @[2]>>]
    IN  [self |-> s1, item |-> OkCell(s.position, st % 256), overflow |-> st > 255]

\* A faulty variant of the prefix: the run count is reset, as after a tag.
RlePrefixResets(s, c) == [s EXCEPT !.state_prefix = Some(c), !.run_count = 0]

\* b'p'..=b'y': the prefix of a multi-char state
RlePrefix(s, c) == [s EXCEPT !.state_prefix = Some(c)]

\* A faulty variant of the end of a row: the column goes back to 0, not to x_start.
RleRowEndAtZero(s) == [s EXCEPT !.position = <<0, @[2] + s.run_count>>, !.run_count = 0]

\* A faulty variant of the end of a row: the rows are counted in a place that the
\* decoders of a process share, so a second decoder starts a row further down.
RleRowEndShared(s) ==
    [s EXCEPT !.position = <<s.x_start, @[2] + s.run_count + Len(docs)>>, !.run_count = 0]

\* b'$': the end of a row
RleRowEnd(s) == [s EXCEPT !.position = <<s.x_start, @[2] + s.run_count>>, !.run_count = 0]

\* A faulty variant of the terminator: it reads the input to its end.
RleTerminatorDrains(s) == Step([s EXCEPT !.lines = <<>>, !.current_line = None], NoneItem)

\* A faulty variant of the terminator: it also takes the line after its own.
RleTerminatorTakesLine(s) ==
    Step([s EXCEPT !.lines = IF @ = <<>> THEN @ ELSE Tail(@)], NoneItem)

\* b'!': the terminator ends the sequence; nothing else of the struct changes.
RleTerminator(s) == Step(s, NoneItem)

\* if self.run_count == 0 { self.run_count = 1; }
RleDefaultCount(s) == IF s.run_count = 0 THEN [s EXCEPT !.run_count = 1] ELSE s

\* The decimal digits of n >= 1.
RECURSIVE Decimal(_)
Decimal(n) ==
    IF n < 10 THEN <<Ord["0"] + n>> ELSE Decimal(n \div 10) \o <<Ord["0"] + (n % 10)>>

\* The digits at the head of a line.
DigitRun(bytes) == SubSeq(bytes, 1, SkipDigits(bytes, 1) - 1)

\* The decimal number that the digit branch reaches from run_count >= 0 over the
\* digits ds, were run_count unbounded: 10 * run_count + digit, digit after digit.
RunDigits(run_count, ds) == (IF run_count = 0 THEN <<>> ELSE Decimal(run_count)) \o ds

\* Whether a step of the digit branch leaves i64.  A run count below zero comes only
\* from an earlier overflow; the inputs then have few digits.
RunOverflows(run_count, ds) ==
    IF run_count < 0 THEN FALSE
    ELSE LET v == StripZeros(RunDigits(run_count, ds))
         IN  Len(v) > 19 \/ (Len(v) = 19 /\ ~DigitsLeq(v, I64MaxDigits))

\* a < b for two strings of digits of the same length, from position i on.
LessFrom(a, b, i) ==
    \E k \in i..Len(a) : a[k] < b[k] /\ \A j \in i..(k - 1) : a[j] = b[j]

\* a - b for two strings of digits of the same length, a >= b: a digit borrows when
\* the digits behind it are less in a than in b.
DigitsMinus(a, b) ==
    [i \in 1..Len(a) |->
        48 + ((a[i] - b[i] - (IF LessFrom(a, b, i + 1) THEN 1 ELSE 0) + 10) % 10)]

\* The digits ds with zeros in front, n digits in all.
PadTo(ds, n) == [i \in 1..n |-> IF i <= n - Len(ds) THEN 48 ELSE ds[i - (n - Len(ds))]]

\* 2^64 in decimal
TwoTo64Digits ==
    << 49, 56, 52, 52, 54, 55, 52, 52, 48, 55, 51, 55, 48, 57, 53, 53, 49, 54, 49, 54 >>

\* The decimal number ds modulo 2^64, in n digits.
RECURSIVE ModTwoTo64(_, _)
ModTwoTo64(ds, n) ==
    IF LessFrom(ds, PadTo(TwoTo64Digits, n), 1) THEN ds
    ELSE ModTwoTo64(DigitsMinus(ds, PadTo(TwoTo64Digits, n)), n)

\* The i64 that wrapping arithmetic gives for the decimal number ds: ds modulo 2^64,
\* read as two's complement.  (10 * r + d wraps digit after digit; the result is that
\* of the whole number, as wrapping arithmetic is arithmetic modulo 2^64.)
WrapI64(ds) ==
    LET n == Len(ds) + 1
        v == ModTwoTo64(PadTo(ds, n), n)
    IN  IF Len(StripZeros(ds)) < 19 THEN DigitsValue(StripZeros(ds))
        ELSE IF LessFrom(v, PadTo(I64MinDigits, n), 1) THEN DigitsValue(StripZeros(v))
        ELSE 0 - DigitsValue(StripZeros(DigitsMinus(PadTo(TwoTo64Digits, n), v)))

\* The run count after the digit branch has read the digits ds.
RECURSIVE RunValue(_, _)
RunValue(run_count, ds) ==
    IF run_count >= 0 THEN WrapI64(RunDigits(run_count, ds))
    ELSE IF ds = <<>> THEN run_count
    ELSE RunValue(10 * run_count + (Head(ds) - Ord["0"]), Tail(ds))

\* self.run_count = 10 * self.run_count + (c - b'0') as i64, for each digit of ds
RleDigit(s, ds) == [s EXCEPT !.run_count = RunValue(@, ds)]

\* A faulty variant of the test below: a header line behind the body is read as a body line.
RleSkipsHashOnly(line) == IsCommentLine(line)

\* The body lines next() skips: '#', "x " and "x=" lines.
RleSkipsLine(line) == IsCommentLine(line) \/ IsHeaderLine(line)

\* A faulty variant of the error below: the pending prefix is left out of the state code.
RleInvalidPrefixedByteOnly(s, c) == Step(s, ErrItem("InvalidState", <<c>>))

\* A faulty variant of the error below: the state code is cut to its prefix.
RleInvalidPrefixedCut(s, c) == Step(s, ErrItem("InvalidState", <<Unwrap(s.state_prefix)>>))

\* A pending prefix before a byte that is no letter A..X: InvalidState of both bytes.
RleInvalidPrefixed(s, c) == Step(s, ErrItem("InvalidState", <<Unwrap(s.state_prefix), c>>))

\* The item of a pull in which an earlier step has left i64 (over).
Carry(r, over) == [r EXCEPT !.overflow = @ \/ over]

RECURSIVE RleLoop(_, _)
\* A byte that is neither a digit nor whitespace.
RleTag(s0, c, over) ==
    LET s == RleDefaultCount(s0)
    IN  IF IsSome(s.state_prefix) /\ ~(c \in Ord["A"]..Ord["X"])
        THEN Carry(RleInvalidPrefixed(s, c), over)
        ELSE IF c = Ord["b"] \/ c = Ord["."] THEN RleLoop(RleDead(s), over)
        ELSE IF c = Ord["o"] \/ c \in Ord["A"]..Ord["X"] THEN Carry(RleAlive(s, c), over)
        ELSE IF c \in Ord["p"]..Ord["y"] THEN RleLoop(RlePrefix(s, c), over)
        ELSE IF c = Ord["$"] THEN RleLoop(RleRowEnd(s), over)
        ELSE IF c = Ord["!"] THEN Carry(RleTerminator(s), over)
        ELSE Carry(Step(s, ErrItem("InvalidState", <<c>>)), over)

\* The loop of next(): one tag, one blank, one run of digits or one line per
\* iteration; over tells whether the run count has left i64 in this call.
RleLoop(s, over) ==
    IF IsSome(s.current_line) /\ Unwrap(s.current_line) # <<>>
    THEN LET c  == Head(Unwrap(s.current_line))
             ds == DigitRun(Unwrap(s.current_line))
             s1 == [s EXCEPT !.current_line = Some(Tail(Unwrap(s.current_line)))]
             s2 == [s EXCEPT !.current_line = Some(From(Unwrap(s.current_line), Len(ds) + 1))]
         IN  IF IsAsciiDigit(c) THEN RleLoop(RleDigit(s2, ds), over \/ RunOverflows(s.run_count, ds))
             ELSE IF ~IsAsciiWhitespace(c) THEN RleTag(s1, c, over)
             ELSE RleLoop(s1, over)
    ELSE IF s.lines # <<>>
    THEN LET line == Head(s.lines)
             s1   == [s EXCEPT !.lines = Tail(s.lines)]
         IN  IF IsIoError(line) THEN Carry(Step(s1, ErrItem("IoError", <<>>)), over)
             ELSE IF RleSkipsLine(line) THEN RleLoop(s1, over)
             ELSE RleLoop([s1 EXCEPT !.current_line = Some(line)], over)
    ELSE Carry(Step(s, NoneItem), over)

\* fn next(&mut self) -> Option<Self::Item>
RleNext(s) == IF s.alive_count > 0 THEN RlePending(s) ELSE RleLoop(s, FALSE)


---------------------------------------------------------------------------
(* rle.rs: RleWithUnknown, the variant with the unknown cell '?'           *)

\* A faulty variant of the unknown run: the column moves by one, whatever the count.
RleUnknownByOne(s) == [s EXCEPT !.position = <<@[1] + 1, @[2]>>, !.run_count = 0]

\* b'?': the unknown run
RleUnknown(s) == [s EXCEPT !.position = <<@[1] + s.run_count, @[2]>>, !.run_count = 0]

\* b'o' | b'b' | b'.' | b'A'..=b'X': the run of known cells; returns its first cell.
\* b'b' and b'.' are state 0 and leave a pending prefix alone, as b'o' does.
RleKnown(s, c) ==
    LET st == IF c = Ord["b"] \/ c = Ord["."] THEN 0 ELSE RleState(s.state_prefix, c)
        s1 == [s EXCEPT !.state = st % 256,
                        !.state_prefix = IF c \in Ord["A"]..Ord["X"] THEN None ELSE @,
                        !.alive_count = s.run_count - 1,
                        !.run_count = 0,
                        !.position = <<@[1] + 1, @[2]>>]
    IN  [self |-> s1, item |-> OkCell(s.position, st % 256), overflow |-> st > 255]

RECURSIVE RleUnknownLoop(_, _)
\* A byte that is neither a digit nor whitespace.
RleUnknownTag(s0, c, over) ==
    LET s == RleDefaultCount(s0)
    IN  IF IsSome(s.state_prefix) /\ ~(c \in Ord["A"]..Ord["X"])
        THEN Carry(RleInvalidPrefixed(s, c), over)
        ELSE IF c = Ord["?"] THEN RleUnknownLoop(RleUnknown(s), over)
        ELSE IF c = Ord["o"] \/ c = Ord["b"] \/ c = Ord["."] \/ c \in Ord["A"]..Ord["X"]
        THEN Carry(RleKnown(s, c), over)
        ELSE IF c \in Ord["p"]..Ord["y"] THEN RleUnknownLoop(RlePrefix(s, c), over)
        ELSE IF c = Ord["$"] THEN RleUnknownLoop(RleRowEnd(s), over)
        ELSE IF c = Ord["!"] THEN Carry(RleTerminator(s), over)
        ELSE Carry(Step(s, ErrItem("InvalidState", <<c>>)), over)

\* The loop of next(): one tag, one blank, one run of digits or one line per
\* iteration; over tells whether the run count has left i64 in this call.
RleUnknownLoop(s, over) ==
    IF IsSome(s.current_line) /\ Unwrap(s.current_line) # <<>>
    THEN LET c  == Head(Unwrap(s.current_line))
             ds == DigitRun(Unwrap(s.current_line))
             s1 == [s EXCEPT !.current_line = Some(Tail(Unwrap(s.current_line)))]
             s2 == [s EXCEPT !.current_line = Some(From(Unwrap(s.current_line), Len(ds) + 1))]
         IN  IF IsAsciiDigit(c)
             THEN RleUnknownLoop(RleDigit(s2, ds), over \/ RunOverflows(s.run_count, ds))
             ELSE IF ~IsAsciiWhitespace(c) THEN RleUnknownTag(s1, c, over)
             ELSE RleUnknownLoop(s1, over)
    ELSE IF s.lines # <<>>
    THEN LET line == Head(s.lines)
             s1   == [s EXCEPT !.lines = Tail(s.lines)]
         IN  IF IsIoError(line) THEN Carry(Step(s1, ErrItem("IoError", <<>>)), over)
             ELSE IF RleSkipsLine(line) THEN RleUnknownLoop(s1, over)
             ELSE RleUnknownLoop([s1 EXCEPT !.current_line = Some(line)], over)
    ELSE Carry(Step(s, NoneItem), over)

\* RleWithUnknown: fn next(&mut self) -> Option<Self::Item>
RleWithUnknownNext(s) == IF s.alive_count > 0 THEN RlePending(s) ELSE RleUnknownLoop(s, FALSE)


---------------------------------------------------------------------------
(* The inputs of the RLE runs                                              *)

\* The longest token sequence of an enumerated body.
MaxToks == 3

\* How many times a run pulls end-of-sequence before it stops pulling.
MaxNones == 1

\* A run-length token: a run count (0: no digit is written) and a tag byte.
Tok(n, c) == [n |-> n, tag |-> Ord[c]]

\* The bytes of a token: its count in decimal, then its tag.
RenderTok(t) == (IF t.n = 0 THEN <<>> ELSE Decimal(t.n)) \o <<t.tag>>

RECURSIVE RenderToks(_)
RenderToks(ts) == IF ts = <<>> THEN <<>> ELSE RenderTok(Head(ts)) \o RenderToks(Tail(ts))

\* The concatenation of the lines of ls.
RECURSIVE Flatten(_)
Flatten(ls) == IF ls = <<>> THEN <<>> ELSE Head(ls) \o Flatten(Tail(ls))

\* All sequences over alphabet of length at most k.
SeqsUpTo(alphabet, k) == UNION {[1..m -> alphabet] : m \in 0..k}

\* The lines of the tests of the repository.
GliderComment == Str(<<"#", "N", " ", "G", "l", "i", "d", "e", "r">>)
GliderHeader == Str(<<"x", " ", "=", " ", "3", ",", " ", "y", " ", "=", " ", "3", ",", " ", "r", "u", "l", "e", " ", "=", " ", "B", "3", "/", "S", "2", "3">>)
GliderCxrle == Str(<<"#", "C", "X", "R", "L", "E", " ", "P", "o", "s", "=", "-", "1", ",", "-", "1">>)
GliderToks ==
    << Tok(0, "b"), Tok(0, "o"), Tok(0, "b"), Tok(0, "$"), Tok(2, "b"), Tok(0, "o"),
       Tok(0, "$"), Tok(3, "o"), Tok(0, "!") >>
\* rle_glider: the body bob$2bo$3o! under comment lines and a header
GliderRle == [lines |-> <<GliderComment, GliderHeader, RenderToks(GliderToks)>>, toks |-> GliderToks]

\* rle_glider_cxrle: the body bo$2bo$3o! under a #CXRLE line and a header
GliderCxrleToks ==
    << Tok(0, "b"), Tok(0, "o"), Tok(0, "$"), Tok(2, "b"), Tok(0, "o"),
       Tok(0, "$"), Tok(3, "o"), Tok(0, "!") >>
GliderCxrleRle ==
    [lines |-> <<GliderCxrle, GliderHeader, RenderToks(GliderCxrleToks)>>, toks |-> GliderCxrleToks]
\* rle_generations_256: the body .AwH$vIxNrQ$2pU!
Generations256Header == Str(<<"x", " ", "=", " ", "3", ",", " ", "y", " ", "=", " ", "3", ",", " ", "r", "u", "l", "e", " ", "=", " ", "2", "3", "/", "3", "/", "2", "5", "6">>)
Generations256Toks ==
    << Tok(0, "."), Tok(0, "A"), Tok(0, "w"), Tok(0, "H"), Tok(0, "$"), Tok(0, "v"), Tok(0, "I"),
       Tok(0, "x"), Tok(0, "N"), Tok(0, "r"), Tok(0, "Q"), Tok(0, "$"), Tok(2, "p"), Tok(0, "U"),
       Tok(0, "!") >>
Generations256Rle ==
    [lines |-> <<Generations256Header, RenderToks(Generations256Toks)>>, toks |-> Generations256Toks]
\* rle_generations: the body 3A$B2A$.CD!
GenerationsToks ==
    << Tok(3, "A"), Tok(0, "$"), Tok(0, "B"), Tok(2, "A"), Tok(0, "$"), Tok(0, "."), Tok(0, "C"),
       Tok(0, "D"), Tok(0, "!") >>
GenerationsRle ==
    [lines |-> <<Str(<<"x", " ", "=", " ", "3", ",", " ", "y", " ", "=", " ", "3", ",", " ", "r", "u", "l", "e", " ", "=", " ", "3", "4", "5", "7", "/", "3", "5", "7", "/", "5">>), RenderToks(GenerationsToks)>>,
     toks |-> GenerationsToks]

\* The decimal digits of an integer, with its sign.
SignedDecimal(n) == IF n < 0 THEN <<Ord["-"]>> \o Decimal(0 - n) ELSE Decimal(n)

\* The line #CXRLE Pos=ox,oy
CxrleLine(o) ==
    Str(<<"#", "C", "X", "R", "L", "E", " ", "P", "o", "s", "=">>) \o SignedDecimal(o[1]) \o <<Ord[","]>> \o SignedDecimal(o[2])

\* Two-state bodies: runs of dead and alive cells, row ends, the terminator.
TwoStateAlphabet ==
    {Tok(0, "b"), Tok(10, "b"), Tok(0, "o"), Tok(2, "o"), Tok(12, "o"), Tok(0, "$"), Tok(2, "$"),
     Tok(0, "!")}

\* The bodies that are also cut into two lines, at every byte.
SplitAlphabet == {Tok(12, "o"), Tok(0, "."), Tok(2, "$"), Tok(0, "!")}

\* The bodies decoded under a #CXRLE origin.
OriginAlphabet ==
    {Tok(0, "b"), Tok(0, "o"), Tok(2, "o"), Tok(0, "$"), Tok(2, "$"), Tok(0, "!")}
Origins == {<<-1, -1>>, <<3, -2>>}

\* Multi-state bodies: letters with and without a prefix, among them yO (255) and yP (256).
MultiStateAlphabet ==
    {Tok(0, c) : c \in {"o", "A", "O", "P", "X", "p", "y"}} \cup {Tok(2, "A")}

\* Bodies with bytes outside the grammar.
ErrorAlphabet ==
    {Tok(0, c) : c \in {"o", "b", "!", "z", "Y", "p", "A", " "}}

\* A body on one line.
OneLine(pre, ts) == [lines |-> pre \o <<RenderToks(ts)>>, toks |-> ts]

\* A body cut into two lines after its first k bytes.
TwoLines(ts, k) ==
    [lines |-> <<SubSeq(RenderToks(ts), 1, k), From(RenderToks(ts), k + 1)>>, toks |-> ts]

RleTokenSources ==
    {OneLine(<<>>, ts) : ts \in SeqsUpTo(TwoStateAlphabet, MaxToks)}
    \cup UNION {{TwoLines(ts, k) : k \in 0..Len(RenderToks(ts))} : ts \in SeqsUpTo(SplitAlphabet, MaxToks)}
    \cup {OneLine(<<GliderComment, GliderHeader>>, ts) : ts \in SeqsUpTo(SplitAlphabet, MaxToks)}
    \cup {OneLine(<<CxrleLine(o)>>, ts) : o \in Origins, ts \in SeqsUpTo(OriginAlphabet, MaxToks)}
    \cup {OneLine(<<>>, ts) : ts \in SeqsUpTo(MultiStateAlphabet, MaxToks)}
    \cup {OneLine(<<>>, ts) : ts \in SeqsUpTo(ErrorAlphabet, MaxToks)}
    \cup {OneLine(<<>>, ts) : ts \in {<<Tok(0, "o"), Tok(0, "p"), Tok(2, "z")>>,
                                      <<Tok(0, "p"), Tok(0, " "), Tok(2, "b")>>,
                                      <<Tok(0, "a")>>, <<Tok(0, "x"), Tok(0, "a")>>,
                                      <<Tok(2, "p"), Tok(0, "A"), Tok(0, "o")>>,
                                      <<Tok(0, "o"), Tok(0, "p"), Tok(2, "A")>>}}
    \cup {GliderRle, GliderCxrleRle, Generations256Rle, GenerationsRle}

\* The longest enumerated sequence of lines.
MaxLines == 3

\* Inputs given line by line: bodies over several lines, terminated and unterminated
\* documents one after the other, comment and header lines inside and between them.
RleLineAlphabet ==
    { Str(<<"o">>), Str(<<"2", "o", "!">>), Str(<<"!">>), Str(<<"b", "o", "!", "o">>), Str(<<>>),
      Str(<<"#", "c">>), Str(<<"o", "$">>), Str(<<"x", " ", "=", " ", "1", ",", " ", "y", " ", "=", " ", "1">>),
      Str(<<"#", "C", "X", "R", "L", "E", " ", "P", "o", "s", "=", "2", ",", "1">>) }

RleLineSources == {[lines |-> ls, toks |-> <<>>] : ls \in SeqsUpTo(RleLineAlphabet, MaxLines)}

\* The most metadata lines before an enumerated body.
MaxMeta == 2

\* The lines of rle_parse_header and rle_parse_cxrle.
HeaderNoRule == Str(<<"x", " ", "=", " ", "3", ",", " ", "y", " ", "=", " ", "3">>)
HeaderNegative == Str(<<"x", " ", "=", " ", "3", ",", " ", "y", " ", "=", " ", "-", "3">>)
HeaderTrailing ==
    Str(<<"x", " ", "=", " ", "3", ",", " ", "y", " ", "=", " ", "3", ",", " ", "r", "u", "l", "e", " ", "=", " ",
          "C", "o", "n", "w", "a", "y", "'", "s", " ", "G", "a", "m", "e", " ", "o", "f", " ", "L", "i", "f", "e",
          " ", " ">>)
CxrleBare == Str(<<"#", "C", "X", "R", "L", "E">>)
CxrlePosGen ==
    Str(<<"#", "C", "X", "R", "L", "E", " ", "P", "o", "s", "=", "0", ",", "-", "1", "3", "7", "7", " ",
          "G", "e", "n", "=", "3", "4", "8", "0", "1", "0", "6", "8", "2", "7", "7", "7", "6">>)
CxrleGenPos ==
    Str(<<"#", "C", "X", "R", "L", "E", " ", "G", "e", "n", " ", "=", " ", "3", "4", "8", "0", "1", "0", "6",
          "8", "2", "7", "7", "7", "6", " ", "P", "o", "s", " ", "=", " ", "0", ",", " ", "-", "1", "3", "7", "7">>)
CxrleNoise ==
    Str(<<"#", "C", "X", "R", "L", "E", "2", "1", "1", "P", "o", "s", "=", "0", ",", "-", "9", "d", "c", "d",
          "c", "s", "2", ",", "[", "a", " ", "c", "c", "G", "e", "n", "=", "3", "4", "8", "s", "s", "s", "1",
          "0", "6", "8", "c", "s", "c", "P", "o", "s", "=", " ", "-", "3", "3", "3", ",", "-", "1", "a", "6">>)

\* Header lines: with and without a rule, with and without blanks around '=', with
\* blanks after the rule; and lines that begin like a header and are none (no y, a
\* negative or non-numeric size, a blank at the end, a size that no u64 holds).
RleHeaderLines ==
    { GliderHeader, HeaderNoRule, HeaderTrailing,
      Str(<<"x", "=", "1", ",", "y", "=", "2">>),
      Str(<<"x", " ", "=", "1", ",", "y", "=", " ", "2", ",", "r", "u", "l", "e", "=", "L">>),
      HeaderNegative,
      Str(<<"x", " ", "=", " ", "3">>),
      Str(<<"x", " ", "=", " ", "a", ",", " ", "y", " ", "=", " ", "3">>),
      Str(<<"x", " ", "=", " ", "3", ",", " ", "y", " ", "=", " ", "3", " ">>),
      Str(<<"x", " ", "=", " ", "3", ",", " ", "y", " ", "=", " ", "3", ",", " ", "r", "u", "l", "e", " ", "=", " ">>),
      Str(<<"x", "=", "1", ",", "y", "=">>) \o U64MaxDigits \o Str(<<"9">>) }

\* #CXRLE lines: neither field, each field, both in either order, blanks around '=',
\* a field twice; and fields that are not followed by numbers, or by numbers that
\* no i64 or u64 holds.
RleCxrleLines ==
    { GliderCxrle, CxrleBare, CxrlePosGen, CxrleGenPos, CxrleNoise,
      Str(<<"#", "C", "X", "R", "L", "E", " ", "G", "e", "n", "=", "3">>),
      Str(<<"#", "C", "X", "R", "L", "E", " ", "G", "e", "n", " ", "=", " ", "3", " ", "P", "o", "s", " ", "=", " ", "2", ",", " ", "-", "1">>),
      Str(<<"#", "C", "X", "R", "L", "E", " ", "P", "o", "s", "=", "2", ",", "-", "1", " ", "G", "e", "n", "=", "3">>),
      Str(<<"#", "C", "X", "R", "L", "E", " ", "P", "o", "s", "=", "1", ",", "2", " ", "G", "e", "n", "=", "4", " ", "P", "o", "s", "=", "3", ",", "4", " ", "G", "e", "n", "=", "5">>),
      Str(<<"#", "C", "X", "R", "L", "E", " ", "P", "o", "s", "=", "x">>),
      Str(<<"#", "C", "X", "R", "L", "E", " ", "P", "o", "s", "=", "1">>),
      Str(<<"#", "C", "X", "R", "L", "E", " ", "G", "e", "n", "=", "-", "5">>),
      Str(<<"#", "C", "X", "R", "L", "E", " ", "G", "e", "n", "=">>) \o U64MaxDigits \o Str(<<"9">>),
      Str(<<"#", "C", "X", "R", "L", "E", " ", "P", "o", "s", "=", "0", ",">>) \o I64MinDigits }

RleMetaLines == RleHeaderLines \cup RleCxrleLines \cup {GliderComment}

\* A body of two rows behind up to MaxMeta metadata lines.
RleMetaBody == Str(<<"b", "o", "$", "2", "o", "!">>)
RleMetaSources ==
    {[lines |-> ls \o <<RleMetaBody>>, toks |-> <<>>] : ls \in SeqsUpTo(RleMetaLines, MaxMeta)}

\* Bodies with run counts that leave i64 while their digits are read: 2^64 - 2 and
\* 2^64 - 1 (-2 and -1 in wrapping arithmetic), 2^64 + 2 (2 in wrapping arithmetic).
WideMinusTwo ==
    << 49, 56, 52, 52, 54, 55, 52, 52, 48, 55, 51, 55, 48, 57, 53, 53, 49, 54, 49, 52 >>
WidePlusTwo ==
    << 49, 56, 52, 52, 54, 55, 52, 52, 48, 55, 51, 55, 48, 57, 53, 53, 49, 54, 49, 56 >>
WideAlphabet ==
    { Str(<<"o">>), Str(<<"b">>), Str(<<"$">>),
      WideMinusTwo \o Str(<<"b">>), U64MaxDigits \o Str(<<"$">>), WidePlusTwo \o Str(<<"o">>) }
RleWideSources ==
    {[lines |-> <<Flatten(ts)>>, toks |-> <<>>] : ts \in SeqsUpTo(WideAlphabet, MaxToks)}

\* Comment, header and #CXRLE lines behind the first line of the body, well-formed and
\* not, between body lines that end inside a run count or a state code.
RleLateSources ==
    {[lines |-> pre \o <<first, late>> \o rest, toks |-> <<>>] :
        pre \in {<<>>, <<HeaderNoRule>>},
        first \in {Str(<<"o">>), Str(<<"2">>), Str(<<"p">>), Str(<<"b", "o", "$">>)},
        late \in {Str(<<"#", "c">>), GliderCxrle, Str(<<"#", "C", "X", "R", "L", "E", " ", "P", "o", "s", "=", "x">>),
                  GliderHeader, Str(<<"x", " ", "=", " ", "a", ",", " ", "y", " ", "=", " ", "3">>),
                  Str(<<"x", "=">>), Str(<<"x", " ">>)},
        rest \in {<<>>, <<Str(<<"o">>)>>, <<Str(<<"A">>)>>, <<Str(<<"$", "o", "!">>)>>}}

RleSources == RleTokenSources \cup RleLineSources \cup RleMetaSources \cup RleWideSources \cup RleLateSources

---------------------------------------------------------------------------
(* The runs                                                                *)

Last(s) == s[Len(s)]

\* The number of end-of-sequence items among the items pulled so far.
NoneCount(items) == Cardinality({i \in 1..Len(items) : items[i].kind = "None"})

\* The run goes on pulling: the process did not abort, and end-of-sequence was not seen MaxNones times.
Aborted == IF out = <<>> THEN FALSE ELSE Last(out).kind = "Panic"
CanPull == NoneCount(out) < MaxNones /\ ~Aborted

\* The Result of a constructor, without the decoder.
ResultOf(r) == IF r.kind = "Ok" THEN [kind |-> "Ok"] ELSE r

InitRleOver(sources) ==
    \E src \in sources :
        /\ dec = "rle"
        /\ input = src.lines
        /\ toks = src.toks
        /\ rle = (IF RleNew(src.lines).kind = "Ok" THEN Some(RleNew(src.lines).value) ELSE None)
        /\ newres = ResultOf(RleNew(src.lines))
        /\ plaintext = None /\ wechsler = None /\ macrocell = None /\ apgcode = None
        /\ out = <<>>
        /\ docs = <<>>

InitRle == InitRleOver(RleSources)

\* One call of Rle::next.  In a build with overflow checks the call aborts instead of
\* returning when the state computation exceeds 8 bits.
RlePull ==
    /\ dec = "rle" /\ IsSome(rle) /\ CanPull
    /\ LET r == RleNext(Unwrap(rle))
       IN  \/ /\ rle' = Some(r.self)
              /\ out' = Append(out, r.item)
           \/ /\ r.overflow
              /\ rle' = None
              /\ out' = Append(out, PanicItem)
    /\ UNCHANGED <<dec, input, toks, plaintext, wechsler, macrocell, apgcode, newres, docs>>

\* How many times a run re-parses the unread lines.
MaxRemains == 1

\* The unread remainder as a fresh document, after an end-of-sequence: the lines the
\* decoder has not taken from its line source go to Rle::new; the decoder is consumed.
\* The runs re-parse only when lines are left.
RleRemains ==
    /\ dec = "rle" /\ IsSome(rle) /\ Len(docs) < MaxRemains
    /\ Unwrap(rle).lines # <<>>
    /\ IF out = <<>> THEN FALSE ELSE Last(out).kind = "None"
    /\ LET r == RleNew(Unwrap(rle).lines)
       IN  /\ rle' = (IF r.kind = "Ok" THEN Some(r.value) ELSE None)
           /\ newres' = ResultOf(r)
    /\ docs' = Append(docs, [cxrle_data |-> Unwrap(rle).cxrle_data,
                             header_data |-> Unwrap(rle).header_data,
                             out |-> out])
    /\ out' = <<>>
    /\ UNCHANGED <<dec, input, toks, plaintext, wechsler, macrocell, apgcode>>

NextRle == RlePull \/ RleRemains

SpecRle == InitRle /\ [][NextRle]_vars

\* Bodies of the variant with unknown cells: runs of unknown, dead and alive cells.
UnknownAlphabet ==
    {Tok(0, "?"), Tok(2, "?"), Tok(0, "b"), Tok(3, "b"), Tok(0, "."), Tok(0, "o"), Tok(2, "o"),
     Tok(0, "$"), Tok(2, "$"), Tok(0, "!")}

\* The bodies decoded under a #CXRLE origin.
UnknownOriginAlphabet == {Tok(2, "?"), Tok(2, "b"), Tok(0, "o"), Tok(0, "$")}

\* Multi-state bodies and bodies with bytes outside the grammar.
UnknownMultiAlphabet ==
    {Tok(0, c) : c \in {"?", "b", "o", "A", "X", "p", "y", "P", "z", " ", "!"}} \cup {Tok(2, "A")}

\* Bodies with run counts that leave i64 while their digits are read.
UnknownWideAlphabet ==
    { Str(<<"o">>), Str(<<"?">>), Str(<<"b">>),
      WideMinusTwo \o Str(<<"?">>), WidePlusTwo \o Str(<<"b">>), WideMinusTwo \o Str(<<"b">>) }

\* rle_glider_with_unknown: the body 5?$?bob?$?2bo?$?3o?$5?!
GliderUnknownToks ==
    << Tok(5, "?"), Tok(0, "$"), Tok(0, "?"), Tok(0, "b"), Tok(0, "o"), Tok(0, "b"), Tok(0, "?"),
       Tok(0, "$"), Tok(0, "?"), Tok(2, "b"), Tok(0, "o"), Tok(0, "?"), Tok(0, "$"), Tok(0, "?"),
       Tok(3, "o"), Tok(0, "?"), Tok(0, "$"), Tok(5, "?"), Tok(0, "!") >>
GliderUnknown == OneLine(<<GliderCxrle, GliderHeader>>, GliderUnknownToks)

RleUnknownSources ==
    {OneLine(<<>>, ts) : ts \in SeqsUpTo(UnknownAlphabet, MaxToks)}
    \cup {OneLine(<<CxrleLine(o)>>, ts) : o \in Origins, ts \in SeqsUpTo(UnknownOriginAlphabet, MaxToks)}
    \cup {OneLine(<<>>, ts) : ts \in SeqsUpTo(UnknownMultiAlphabet, MaxToks)}
    \cup UNION {{TwoLines(ts, k) : k \in 0..Len(RenderToks(ts))} :
                    ts \in SeqsUpTo({Tok(12, "?"), Tok(2, "b"), Tok(0, "$")}, MaxToks)}
    \cup {[lines |-> <<Flatten(ts)>>, toks |-> <<>>] : ts \in SeqsUpTo(UnknownWideAlphabet, MaxToks)}
    \cup {GliderUnknown, GliderRle, Generations256Rle}

\* RleWithUnknown::new: Rle::new(input).map(|rle| rle.with_unknown())
InitUnknown ==
    \E src \in RleUnknownSources :
        /\ dec = "rle_with_unknown"
        /\ input = src.lines
        /\ toks = src.toks
        /\ rle = (IF RleNew(src.lines).kind = "Ok" THEN Some(RleNew(src.lines).value) ELSE None)
        /\ newres = ResultOf(RleNew(src.lines))
        /\ plaintext = None /\ wechsler = None /\ macrocell = None /\ apgcode = None
        /\ out = <<>>
        /\ docs = <<>>

\* One call of RleWithUnknown::next.  In a build with overflow checks the call aborts
\* instead of returning when a computation leaves its integer type.
RleWithUnknownPull ==
    /\ dec = "rle_with_unknown" /\ IsSome(rle) /\ CanPull
    /\ LET r == RleWithUnknownNext(Unwrap(rle))
       IN  \/ /\ rle' = Some(r.self)
              /\ out' = Append(out, r.item)
           \/ /\ r.overflow
              /\ rle' = None
              /\ out' = Append(out, PanicItem)
    /\ UNCHANGED <<dec, input, toks, plaintext, wechsler, macrocell, apgcode, newres, docs>>

SpecUnknown == InitUnknown /\ [][RleWithUnknownPull]_vars


---------------------------------------------------------------------------
(* plaintext.rs: the Plaintext decoder                                     *)

IsPlaintextComment(line) == StartsWith(line, <<Ord["!"]>>)

\* A faulty variant: a line that the line source fails to read is left out.
RECURSIVE PlaintextNewSkipsFailures(_)
PlaintextNewSkipsFailures(lines) ==
    IF lines = <<>>
    THEN [kind |-> "Ok", value |-> [lines |-> lines, current_line |-> None, position |-> <<0, 0>>]]
    ELSE IF IsIoError(Head(lines)) THEN PlaintextNewSkipsFailures(Tail(lines))
    ELSE IF ~IsPlaintextComment(Head(lines))
    THEN [kind |-> "Ok",
          value |-> [lines |-> Tail(lines), current_line |-> Some(Head(lines)), position |-> <<0, 0>>]]
    ELSE PlaintextNewSkipsFailures(Tail(lines))

\* Plaintext::new: the leading '!' lines are skipped, the first other line is current.
RECURSIVE PlaintextNew(_)
PlaintextNew(lines) ==
    IF lines = <<>>
    THEN [kind |-> "Ok", value |-> [lines |-> lines, current_line |-> None, position |-> <<0, 0>>]]
    ELSE IF IsIoError(Head(lines)) THEN [kind |-> "Err", error |-> "IoError", arg |-> <<>>]
    ELSE IF ~IsPlaintextComment(Head(lines))
    THEN [kind |-> "Ok",
          value |-> [lines |-> Tail(lines), current_line |-> Some(Head(lines)), position |-> <<0, 0>>]]
    ELSE PlaintextNew(Tail(lines))

\* A faulty variant of the start of a row: the column is not set back.
PlaintextRowKeepsColumn(s, line) ==
    [s EXCEPT !.position = <<@[1], @[2] + 1>>, !.current_line = Some(line)]

\* A line that is no comment starts the next row at column 0.
PlaintextRow(s, line) ==
    [s EXCEPT !.position = <<0, @[2] + 1>>, !.current_line = Some(line)]

\* impl Iterator for Plaintext: fn next(&mut self) -> Option<Self::Item>
RECURSIVE PlaintextNext(_)
PlaintextNext(s) ==
    IF IsSome(s.current_line) /\ Unwrap(s.current_line) # <<>>
    THEN LET c  == Head(Unwrap(s.current_line))
             s1 == [s EXCEPT !.current_line = Some(Tail(Unwrap(s.current_line)))]
         IN  IF c = Ord["O"] \/ c = Ord["*"]
             THEN Step([s1 EXCEPT !.position = <<@[1] + 1, @[2]>>], OkCoord(s.position))
             ELSE IF c = Ord["."] THEN PlaintextNext([s1 EXCEPT !.position = <<@[1] + 1, @[2]>>])
             ELSE IF IsAsciiWhitespace(c) THEN PlaintextNext(s1)
             ELSE Step(s1, ErrItem("UnexpectedChar", <<c>>))
    ELSE IF s.lines # <<>>
    THEN LET line == Head(s.lines)
             s1   == [s EXCEPT !.lines = Tail(s.lines)]
         IN  IF IsIoError(line) THEN Step(s1, ErrItem("IoError", <<>>))
             ELSE IF IsPlaintextComment(line) THEN PlaintextNext(s1)
             ELSE PlaintextNext(PlaintextRow(s1, line))
    ELSE Step(s, NoneItem)

---------------------------------------------------------------------------
(* apgcode.rs: the Wechsler decoder                                        *)

\* Wechsler::new
WechslerNew(string) == [bytes |-> string, position |-> <<0, 0>>, current_strip |-> 0, index |-> 5]

\* A faulty variant of the bit test: the strip is read from its highest bit down.
StripBitFromTop(strip, index) == (strip \div (2 ^ (4 - index))) % 2

\* self.current_strip & 1 << self.index
StripBit(strip, index) == (strip \div (2 ^ index)) % 2

\* The inner loop of next_cell over the bits of the current strip: gives the cell of
\* the next set bit, or leaves the strip (index 5) with the column advanced.
RECURSIVE WechslerStrip(_)
WechslerStrip(s) ==
    LET s1 == [s EXCEPT !.index = @ + 1,
                        !.position = IF s.index + 1 = 5 THEN <<@[1] + 1, @[2]>> ELSE @]
    IN  IF StripBit(s.current_strip, s.index) = 0
        THEN IF s1.index = 5 THEN [self |-> s1, found |-> FALSE] ELSE WechslerStrip(s1)
        ELSE [self |-> s1, found |-> TRUE, cell |-> <<s.position[1], s.position[2] + s.index>>]

\* A faulty variant of the count after b'y': the letters count from 0.
WechslerCountLettersFromZero(c) ==
    IF c \in Ord["0"]..Ord["9"] THEN Some(c - Ord["0"])
    ELSE IF c \in Ord["a"]..Ord["z"] THEN Some(c - Ord["a"])
    ELSE None

\* The count after b'y': b'0'..=b'9' => c - b'0', b'a'..=b'z' => c - b'a' + 10
WechslerCount(c) ==
    IF c \in Ord["0"]..Ord["9"] THEN Some(c - Ord["0"])
    ELSE IF c \in Ord["a"]..Ord["z"] THEN Some(c - Ord["a"] + 10)
    ELSE None

\* fn next_cell(&mut self) -> Option<Result<Coordinates, Error>>
RECURSIVE next_cell(_)
next_cell(s) ==
    IF s.index < 5
    THEN LET r == WechslerStrip(s)
         IN  IF r.found THEN Step(r.self, OkCoord(r.cell)) ELSE next_cell(r.self)
    ELSE IF s.bytes # <<>>
    THEN LET c  == Head(s.bytes)
             s1 == [s EXCEPT !.bytes = Tail(s.bytes)]
         IN  IF c = Ord["0"] THEN next_cell([s1 EXCEPT !.position = <<@[1] + 1, @[2]>>])
             ELSE IF c \in Ord["1"]..Ord["9"]
             THEN next_cell([s1 EXCEPT !.current_strip = c - Ord["0"], !.index = 0])
             ELSE IF c \in Ord["a"]..Ord["v"]
             THEN next_cell([s1 EXCEPT !.current_strip = c - Ord["a"] + 10, !.index = 0])
             ELSE IF c = Ord["w"] THEN next_cell([s1 EXCEPT !.position = <<@[1] + 2, @[2]>>])
             ELSE IF c = Ord["x"] THEN next_cell([s1 EXCEPT !.position = <<@[1] + 3, @[2]>>])
             ELSE IF c = Ord["y"]
             THEN IF s1.bytes # <<>>
                  THEN LET c2 == Head(s1.bytes)
                           s2 == [s1 EXCEPT !.bytes = Tail(s1.bytes)]
                       IN  IF IsSome(WechslerCount(c2))
                           THEN next_cell([s2 EXCEPT !.position =
                                               <<@[1] + 4 + Unwrap(WechslerCount(c2)), @[2]>>])
                           ELSE Step(s2, ErrItem("UnexpectedChar", <<c2>>))
                  ELSE Step(s1, ErrItem("UnexpectedChar", <<Ord["y"]>>))
             ELSE IF c = Ord["z"] THEN next_cell([s1 EXCEPT !.position = <<0, @[2] + 5>>])
             ELSE Step(s1, ErrItem("UnexpectedChar", <<c>>))
    ELSE Step(s, NoneItem)

---------------------------------------------------------------------------
(* apgcode.rs: the ApgCode record                                          *)

\* str::split('_'): the segments between the underscores; there is always a first one.
RECURSIVE Split(_, _)
Split(string, seg) ==
    IF string = <<>> THEN <<seg>>
    ELSE IF Head(string) = Ord["_"] THEN <<seg>> \o Split(Tail(string), <<>>)
    ELSE Split(Tail(string), Append(seg, Head(string)))

\* match &prefix[..2] with the arms of xp and xq exchanged
PatternTypeOfSwapped(kind) ==
    IF kind = Str(<<"x", "s">>) THEN Some("StillLife")
    ELSE IF kind = Str(<<"x", "q">>) THEN Some("Oscillator")
    ELSE IF kind = Str(<<"x", "p">>) THEN Some("Spaceship")
    ELSE None

\* match &prefix[..2]
PatternTypeOf(kind) ==
    IF kind = Str(<<"x", "s">>) THEN Some("StillLife")
    ELSE IF kind = Str(<<"x", "p">>) THEN Some("Oscillator")
    ELSE IF kind = Str(<<"x", "q">>) THEN Some("Spaceship")
    ELSE None

Unencodable == [kind |-> "Err", error |-> "Unencodable", arg |-> <<>>]

\* pub fn new(string: &'a str) -> Result<Self, Error>.  prefix[2..] is an index into a
\* str: it panics when the prefix has fewer than two bytes.
ApgCodeNew(string) ==
    LET split  == Split(string, <<>>)
        prefix == split[1]
    IN  IF Len(prefix) < 2 THEN [kind |-> "Panic"]
        ELSE IF \E i \in 3..Len(prefix) : ~IsAsciiDigit(prefix[i]) THEN Unencodable
        ELSE IF ~IsSome(PatternTypeOf(SubSeq(prefix, 1, 2))) THEN Unencodable
        ELSE IF ~IsSome(ParseU64(From(prefix, 3))) THEN Unencodable
        ELSE IF Len(split) < 2 THEN Unencodable
        ELSE [kind |-> "Ok",
              value |-> [pattern_type |-> Unwrap(PatternTypeOf(SubSeq(prefix, 1, 2))),
                         period |-> IF Unwrap(PatternTypeOf(SubSeq(prefix, 1, 2))) = "StillLife"
                                    THEN 1 ELSE Unwrap(ParseU64(From(prefix, 3))),
                         wechsler |-> WechslerNew(split[2])]]

---------------------------------------------------------------------------
(* macrocell.rs: the Macrocell decoder                                     *)

\* k fields (\d+) separated by \s+, from position i on: the digit strings, if they match.
RECURSIVE NumberFields(_, _, _)
NumberFields(l, i, k) ==
    LET j == SkipDigits(l, i)
        m == SkipSpace(l, j)
    IN  IF j = i THEN None
        ELSE IF k = 1 THEN Some(<<SubSeq(l, i, j - 1)>>)
        ELSE IF m = j THEN None
        ELSE IF IsSome(NumberFields(l, m, k - 1))
        THEN Some(<<SubSeq(l, i, j - 1)>> \o Unwrap(NumberFields(l, m, k - 1)))
        ELSE None

\* The number of bytes at the head of a line that equal its first byte.
RunLength(bytes) ==
    CHOOSE n \in 1..Len(bytes) :
        /\ \A i \in 1..n : bytes[i] = bytes[1]
        /\ n = Len(bytes) \/ bytes[n + 1] # bytes[1]

\* The loop of parse_level3 over the bytes of the line, a run of '.' or of '$' taken in
\* one step (n times x += 1, or y += 1); the u64 is the set of its one bits.  x and y
\* are u8: data is what the loop returns when x += 1 and y += 1 wrap (a build without
\* overflow checks), overflow tells whether one of them did wrap (a build with overflow
\* checks panics there).
RECURSIVE Level3Loop(_, _, _, _, _)
Level3Loop(bytes, x, y, node, overflow) ==
    IF bytes = <<>> THEN [data |-> Some([type |-> "Level3", bits |-> node]), overflow |-> overflow]
    ELSE LET c    == Head(bytes)
             n    == RunLength(bytes)
             rest == SubSeq(bytes, n + 1, Len(bytes))
         IN  IF c = Ord["."]
             THEN Level3Loop(rest, (x + n) % 256, y, node, overflow \/ x + n > 255)
             ELSE IF c = Ord["*"]
             THEN IF x >= 8 \/ y >= 8 THEN [data |-> None, overflow |-> overflow]
                  ELSE Level3Loop(Tail(bytes), x + 1, y, node \cup {(7 - y) * 8 + (7 - x)}, overflow)
             ELSE IF c = Ord["$"]
             THEN Level3Loop(rest, 0, (y + n) % 256, node, overflow \/ y + n > 255)
             ELSE IF IsAsciiWhitespace(c) THEN Level3Loop(Tail(bytes), x, y, node, overflow)
             ELSE [data |-> None, overflow |-> overflow]

\* fn parse_level3(line: &str) -> Option<NodeData>
parse_level3(line) == Level3Loop(line, 0, 0, {}, FALSE)

\* fn parse_level1(line: &str) -> Option<NodeData>: ^1\s+(\d+)\s+(\d+)\s+(\d+)\s+(\d+)
parse_level1(line) ==
    IF ~(StartsWith(line, <<Ord["1"]>>) /\ SkipSpace(line, 2) > 2) THEN None
    ELSE LET f == NumberFields(line, SkipSpace(line, 2), 4)
         IN  IF ~IsSome(f) THEN None
             ELSE IF \E i \in 1..4 : ~IsSome(ParseU8(Unwrap(f)[i])) THEN None
             ELSE Some([type |-> "Level1",
                        nw |-> Unwrap(ParseU8(Unwrap(f)[1])), ne |-> Unwrap(ParseU8(Unwrap(f)[2])),
                        sw |-> Unwrap(ParseU8(Unwrap(f)[3])), se |-> Unwrap(ParseU8(Unwrap(f)[4]))])

\* fn parse_node(line: &str) -> Option<NodeData>: ^(\d+)\s+(\d+)\s+(\d+)\s+(\d+)\s+(\d+)
\* The children are usize, which has 64 bits on the targets modelled.
parse_node(line) ==
    LET f == NumberFields(line, 1, 5)
    IN  IF ~IsSome(f) THEN None
        ELSE IF ~IsSome(ParseU8(Unwrap(f)[1])) THEN None
        ELSE IF \E i \in 2..5 : ~IsSome(ParseU64(Unwrap(f)[i])) THEN None
        ELSE Some([type |-> "Node", level |-> Unwrap(ParseU8(Unwrap(f)[1])),
                   nw |-> Unwrap(ParseU64(Unwrap(f)[2])), ne |-> Unwrap(ParseU64(Unwrap(f)[3])),
                   sw |-> Unwrap(ParseU64(Unwrap(f)[4])), se |-> Unwrap(ParseU64(Unwrap(f)[5]))])

\* parse_rule with the whitespace after the rule kept
parse_rule_untrimmed(line) ==
    IF ~StartsWith(line, <<Ord["#"], Ord["R"]>>) THEN None
    ELSE IF SkipSpace(line, 3) > Len(line) THEN None
    ELSE Some(SubSeq(line, SkipSpace(line, 3), Len(line)))

\* fn parse_rule(line: &str) -> Option<String>: ^#R\s*(?P<rule>.*\S)\s*$
parse_rule(line) ==
    IF ~StartsWith(line, <<Ord["#"], Ord["R"]>>) THEN None
    ELSE IF SkipSpace(line, 3) > Len(line) THEN None
    ELSE Some(SubSeq(line, SkipSpace(line, 3), LastNonSpace(line, Len(line))))

\* fn parse_gen(line: &str) -> Option<u64>: ^#G\s*(?P<gen>\d+)\s*$
parse_gen(line) ==
    IF ~StartsWith(line, <<Ord["#"], Ord["G"]>>) THEN None
    ELSE LET i == SkipSpace(line, 3)
             j == SkipDigits(line, i)
         IN  IF j = i \/ SkipSpace(line, j) <= Len(line) THEN None
             ELSE ParseU64(SubSeq(line, i, j - 1))

MacrocellInitial(rule, gen, lines, current_line) ==
    [rule |-> rule, gen |-> gen, lines |-> lines, current_line |-> current_line, id |-> 1]

\* The while loop of Macrocell::new over the leading lines.
RECURSIVE MacrocellNewLoop(_, _, _)
MacrocellNewLoop(lines, rule, gen) ==
    IF lines = <<>> THEN [kind |-> "Ok", value |-> MacrocellInitial(rule, gen, lines, None)]
    ELSE LET line == Head(lines)
             rest == Tail(lines)
         IN  IF IsIoError(line) THEN [kind |-> "Err", error |-> "IoError", arg |-> <<>>]
             ELSE IF StartsWith(line, Str(<<"[", "M", "2", "]">>)) THEN MacrocellNewLoop(rest, rule, gen)
             ELSE IF StartsWith(line, <<Ord["#"], Ord["R"]>>)
             THEN IF IsSome(parse_rule(line))
                  THEN MacrocellNewLoop(rest, Some(Unwrap(parse_rule(line))), gen)
                  ELSE [kind |-> "Err", error |-> "InvalidHeaderLine", arg |-> line]
             ELSE IF StartsWith(line, <<Ord["#"], Ord["G"]>>)
             THEN IF IsSome(parse_gen(line))
                  THEN MacrocellNewLoop(rest, rule, Some(Unwrap(parse_gen(line))))
                  ELSE [kind |-> "Err", error |-> "InvalidHeaderLine", arg |-> line]
             ELSE IF ~StartsWith(line, <<Ord["#"]>>)
             THEN [kind |-> "Ok", value |-> MacrocellInitial(rule, gen, rest, Some(line))]
             ELSE MacrocellNewLoop(rest, rule, gen)

\* pub fn new(input: I) -> Result<Self, Error>
MacrocellNew(lines) == MacrocellNewLoop(lines, None, None)

OkNode(id, data) == [kind |-> "Ok", id |-> id, data |-> data]

\* The node of a line, or InvalidNodeLine(line); a node takes the next id.
MacrocellNode(s, line, data) ==
    IF IsSome(data) THEN Step([s EXCEPT !.id = @ + 1], OkNode(s.id, Unwrap(data)))
    ELSE Step(s, ErrItem("InvalidNodeLine", line))

\* impl Iterator for Macrocell: fn next(&mut self) -> Option<Self::Item>
RECURSIVE MacrocellNext(_)
MacrocellNext(s) ==
    IF IsSome(s.current_line)
    THEN LET line == Unwrap(s.current_line)
             s1   == [s EXCEPT !.current_line = None]
         IN  IF StartsWith(line, <<Ord["#"]>>) THEN MacrocellNext(s1)
             ELSE IF line # <<>> /\ Head(line) \in {Ord["."], Ord["*"], Ord["$"]}
             THEN [MacrocellNode(s1, line, parse_level3(line).data)
                      EXCEPT !.overflow = parse_level3(line).overflow]
             ELSE IF StartsWith(line, <<Ord["1"], Ord[" "]>>)
             THEN MacrocellNode(s1, line, parse_level1(line))
             ELSE MacrocellNode(s1, line, parse_node(line))
    ELSE IF s.lines # <<>>
    THEN LET s1 == [s EXCEPT !.lines = Tail(s.lines)]
         IN  IF IsIoError(Head(s.lines)) THEN Step(s1, ErrItem("IoError", <<>>))
             ELSE MacrocellNext([s1 EXCEPT !.current_line = Some(Head(s.lines))])
    ELSE Step(s, NoneItem)

---------------------------------------------------------------------------
(* The runs of Plaintext, Wechsler and Macrocell                           *)

\* plaintext_glider
PlaintextGlider ==
    << Str(<<"!", "N", "a", "m", "e", ":", " ", "G", "l", "i", "d", "e", "r">>), Str(<<"!">>),
       Str(<<".", "O", ".">>), Str(<<".", ".", "O">>), Str(<<"O", "O", "O">>) >>

\* Rows with cells of both spellings, dead cells and whitespace, empty rows, comment
\* lines (one that holds an 'O'), and a row with a byte outside the grammar.
PlaintextLineAlphabet ==
    { Str(<<>>), Str(<<"!", "O">>), Str(<<".", "O">>), Str(<<"*", ".", "*">>), Str(<<"O", " ", "O">>),
      Str(<<"O", "z", "O">>) }

PlaintextSources == SeqsUpTo(PlaintextLineAlphabet, MaxLines) \cup {PlaintextGlider}

InitPlaintext ==
    \E src \in PlaintextSources :
        /\ dec = "plaintext"
        /\ input = src
        /\ plaintext = (IF PlaintextNew(src).kind = "Ok" THEN Some(PlaintextNew(src).value) ELSE None)
        /\ newres = ResultOf(PlaintextNew(src))
        /\ rle = None /\ wechsler = None /\ macrocell = None /\ apgcode = None
        /\ toks = <<>> /\ out = <<>> /\ docs = <<>>

\* One call of Plaintext::next.
PlaintextPull ==
    /\ dec = "plaintext" /\ IsSome(plaintext) /\ CanPull
    /\ plaintext' = Some(PlaintextNext(Unwrap(plaintext)).self)
    /\ out' = Append(out, PlaintextNext(Unwrap(plaintext)).item)
    /\ UNCHANGED <<dec, input, toks, rle, wechsler, macrocell, apgcode, newres, docs>>

SpecPlaintext == InitPlaintext /\ [][PlaintextPull]_vars

\* A faulty variant of the remainder: the unread bytes of the current line come first.
PlaintextRemainderKeepsCurrent(s) ==
    (IF IsSome(s.current_line) THEN <<Unwrap(s.current_line)>> ELSE <<>>) \o s.lines

\* What remains hands to Plaintext::new: the lines not taken from the line source.
PlaintextRemainder(s) == s.lines

\* Plaintext::remains, at any point: the decoder is consumed, a new one is built over
\* the lines it has not taken.  docs keeps those lines and the items pulled so far.
PlaintextRemains ==
    /\ dec = "plaintext" /\ IsSome(plaintext) /\ Len(docs) < MaxRemains
    /\ LET r == PlaintextNew(PlaintextRemainder(Unwrap(plaintext)))
       IN  /\ plaintext' = (IF r.kind = "Ok" THEN Some(r.value) ELSE None)
           /\ newres' = ResultOf(r)
    /\ docs' = Append(docs, [lines |-> Unwrap(plaintext).lines, out |-> out])
    /\ out' = <<>>
    /\ UNCHANGED <<dec, input, toks, rle, wechsler, macrocell, apgcode>>

NextPlaintextRemains == PlaintextPull \/ PlaintextRemains

SpecPlaintextRemains == InitPlaintext /\ [][NextPlaintextRemains]_vars

\* The longest enumerated Wechsler string.
MaxChars == 3

\* wechsler_twin_bees_shuttle
TwinBeesShuttle ==
    Str(<<"0", "3", "3", "y", "1", "3", "3", "z", "z", "z", "c", "k", "g", "s", "x", "s", "g", "k",
          "c", "z", "z", "0", "c", "c">>)

\* Strips (1, 3, 5, a = 01010, v = 11111), every skip code, and a byte outside the grammar.
WechslerAlphabet == {Ord[c] : c \in {"0", "1", "3", "5", "a", "v", "w", "x", "y", "z", "A"}}

WechslerSources == SeqsUpTo(WechslerAlphabet, MaxChars) \cup {TwinBeesShuttle}

InitWechsler ==
    \E src \in WechslerSources :
        /\ dec = "wechsler"
        /\ input = src
        /\ wechsler = Some(WechslerNew(src))
        /\ newres = [kind |-> "Ok"]
        /\ rle = None /\ plaintext = None /\ macrocell = None /\ apgcode = None
        /\ toks = <<>> /\ out = <<>> /\ docs = <<>>

\* One call of Cells::next, which is Wechsler::next_cell.
WechslerPull ==
    /\ dec = "wechsler" /\ IsSome(wechsler) /\ CanPull
    /\ wechsler' = Some(next_cell(Unwrap(wechsler)).self)
    /\ out' = Append(out, next_cell(Unwrap(wechsler)).item)
    /\ UNCHANGED <<dec, input, toks, rle, plaintext, macrocell, apgcode, newres, docs>>

SpecWechsler == InitWechsler /\ [][WechslerPull]_vars

\* macrocell_glider
MacrocellGlider ==
    << Str(<<"[", "M", "2", "]", " ", "(", "g", "o", "l", "l", "y", " ", "3", ".", "4", ")">>),
       Str(<<"#", "R", " ", "B", "3", "/", "S", "2", "3">>),
       Str(<<"$", "$", "$", "$", "$", "$", "*", "$", ".", "*", "$">>),
       Str(<<".", ".", ".", ".", ".", ".", ".", "*", "$">>),
       Str(<<"*", "*", "$">>),
       Str(<<"4", " ", "0", " ", "1", " ", "2", " ", "3">>) >>

\* Header lines, leaves of both levels, a node, a comment, and lines outside the grammar.
MacrocellLineAlphabet ==
    { Str(<<"[", "M", "2", "]">>), Str(<<"#", "R", " ", "B", "3", "/", "S", "2", "3">>), Str(<<"#", "c">>),
      Str(<<"*", "*", "$">>), Str(<<"*", "*", "z">>), Str(<<"1", " ", "2", " ", "3", " ", "4", " ", "2", "5", "5">>),
      Str(<<"4", " ", "0", " ", "1", " ", "2", " ", "3">>), Str(<<"x">>) }

\* A row of 256 dead cells, and 256 row separators: enough to wrap the u8 cursor.
Dots256 == [i \in 1..256 |-> Ord["."]]
Dollars256 == [i \in 1..256 |-> Ord["$"]]

\* Level-3 lines: the two lines of macrocell_parse_line, cells in column 7 and 8 and in
\* row 7 and 8, a row of eight dead cells, whitespace between the symbols, symbols
\* outside the grammar, and lines on which the column or the row passes 255.
MacrocellLevel3Lines ==
    { Str(<<"$", "$", ".", ".", "*", "$", ".", ".", ".", "*", "$", ".", "*", "*", "*", "$", "$", "$", "$">>),
      Str(<<"$", "$", ".", ".", "*", "$", ".", ".", ".", "*", "$", ".", "*", "*", "*", "$", "$", "$", "$", "*">>),
      Str(<<".", ".", ".", ".", ".", ".", ".", ".", "*">>),
      Str(<<".", ".", ".", ".", ".", ".", ".", ".">>),
      Str(<<".", ".", ".", ".", ".", ".", ".", "*">>), Str(<<"*">>), Str(<<"*", " ", ".", "*">>),
      Str(<<"$", "$", "$", "$", "$", "$", "$", "*">>), Str(<<"*", "x">>), Str(<<".", "O">>),
      Dots256 \o Str(<<"*">>), Dots256 \o Str(<<"$", "*">>), Dollars256 \o Str(<<"*">>) }

\* Level-1 lines: states above 255, too few numbers, text after the fourth number, a
\* bare 1, and a tab or several blanks after the 1.
MacrocellLevel1Lines ==
    { Str(<<"1", " ", "2", " ", "3", " ", "4", " ", "2", "5", "6">>),
      Str(<<"1", " ", "3", "0", "0", " ", "3", " ", "4", " ", "5">>),
      Str(<<"1", " ", "2", " ", "3", " ", "4">>),
      Str(<<"1", " ", "2", " ", "3", " ", "4", " ", "5", " ", "6">>),
      Str(<<"1", " ", "2", " ", "3", " ", "4", " ", "5", "x">>),
      Str(<<"1", " ", "0", " ", "0", " ", "0", " ", "0">>), Str(<<"1">>),
      <<49, 9>> \o Str(<<"2", " ", "3", " ", "4", " ", "5">>),
      <<49, 9>> \o Str(<<"2", " ", "3", " ", "4", " ", "2", "5", "6">>),
      Str(<<"1", " ", " ", "2">>) \o <<9>> \o Str(<<"3", " ", "4", " ", "5">>) }

\* Branch lines: the two lines of macrocell_parse_line, text after the fifth number,
\* a token that is no number, a level above 255, children that are 0, not yet declared
\* or above the node's own id, a leading blank, the empty line, and children around
\* usize::MAX.
MacrocellBranchLines ==
    { Str(<<"1", "0", " ", "2", "0", " ", "3", "0", " ", "4", "0", " ", "5", "0">>),
      Str(<<"1", "0", " ", "2", "0", " ", "3", "0", " ", "4", "0">>),
      Str(<<"4", " ", "0", " ", "1", " ", "2", " ", "3", " ", "x">>),
      Str(<<"4", " ", "0", " ", "1", " ", "2", " ", "3", "x">>),
      Str(<<"4", " ", "0", " ", "1", " ", "2", " ", "x">>),
      Str(<<"4", " ", "0", " ", "x", " ", "2", " ", "3">>),
      Str(<<"2", "5", "6", " ", "0", " ", "1", " ", "2", " ", "3">>),
      Str(<<"3", " ", "9", " ", "9", " ", "1", " ", "0">>),
      Str(<<" ", "4", " ", "0", " ", "1", " ", "2", " ", "3">>), Str(<<>>),
      Str(<<"1", "0", " ", "2", " ", "3", " ", "4", " ", "5">>),
      Str(<<"4", " ", "0", " ", "1", " ", "2", " ", "1", "8", "4", "4", "6", "7", "4", "4", "0", "7", "3", "7", "0", "9", "5", "5", "1", "6", "1", "5">>),
      Str(<<"4", " ", "0", " ", "1", " ", "2", " ", "1", "8", "4", "4", "6", "7", "4", "4", "0", "7", "3", "7", "0", "9", "5", "5", "1", "6", "1", "6">>) }

MacrocellNodeLines == MacrocellLevel3Lines \cup MacrocellLevel1Lines \cup MacrocellBranchLines

\* The most header lines of the enumerated headers.
MaxHeaders == 2

\* Header lines: the [M2] line, rules with and without whitespace around them, a rule
\* line without rule, generations, generation lines without a number, with text, with
\* two numbers and with a number above u64::MAX, and a comment.
MacrocellHeaderLines ==
    { Str(<<"[", "M", "2", "]", " ", "(", "g", "o", "l", "l", "y", " ", "3", ".", "4", ")">>),
      Str(<<"#", "R", " ", "B", "3", "/", "S", "2", "3">>),
      Str(<<"#", "R", " ", " ", "B", "3", " ", " ">>), Str(<<"#", "R", "B", "3">>),
      Str(<<"#", "R">>), Str(<<"#", "R", " ", " ">>), Str(<<"#", "G", " ", "1", "2">>),
      Str(<<"#", "G", "1", "2", " ">>), Str(<<"#", "G">>), Str(<<"#", "G", " ", "x">>),
      Str(<<"#", "G", " ", "1", " ", "2">>),
      Str(<<"#", "G", " ", "1", "8", "4", "4", "6", "7", "4", "4", "0", "7", "3", "7", "0", "9", "5", "5", "1", "6", "1", "6">>),
      Str(<<"#", "c">>) }

\* What follows the header: nothing, a leaf, or a leaf, a line starting with #R that
\* is no rule line, and a branch.
MacrocellBodies ==
    { <<>>, <<Str(<<"*", "*", "$">>)>>,
      <<Str(<<"*", "*", "$">>), Str(<<"#", "R">>), Str(<<"4", " ", "0", " ", "1", " ", "2", " ", "3">>)>> }

MacrocellSources ==
    SeqsUpTo(MacrocellLineAlphabet, MaxLines) \cup {MacrocellGlider}
    \cup { <<l>> : l \in MacrocellNodeLines }
    \cup { <<Str(<<"*", "*", "$">>), l, Str(<<"4", " ", "0", " ", "1", " ", "2", " ", "3">>)>> :
             l \in MacrocellNodeLines }
    \cup { h \o b : h \in SeqsUpTo(MacrocellHeaderLines, MaxHeaders), b \in MacrocellBodies }

InitMacrocell ==
    \E src \in MacrocellSources :
        /\ dec = "macrocell"
        /\ input = src
        /\ macrocell = (IF MacrocellNew(src).kind = "Ok" THEN Some(MacrocellNew(src).value) ELSE None)
        /\ newres = ResultOf(MacrocellNew(src))
        /\ rle = None /\ plaintext = None /\ wechsler = None /\ apgcode = None
        /\ toks = <<>> /\ out = <<>> /\ docs = <<>>

\* One call of Macrocell::next.  In a build with overflow checks the call aborts instead
\* of returning an item computed from a wrapped column or row.
MacrocellPull ==
    /\ dec = "macrocell" /\ IsSome(macrocell) /\ CanPull
    /\ LET r == MacrocellNext(Unwrap(macrocell))
       IN  \/ /\ macrocell' = Some(r.self)
              /\ out' = Append(out, r.item)
           \/ /\ r.overflow
              /\ macrocell' = None
              /\ out' = Append(out, PanicItem)
    /\ UNCHANGED <<dec, input, toks, rle, plaintext, wechsler, apgcode, newres, docs>>

SpecMacrocell == InitMacrocell /\ [][MacrocellPull]_vars

---------------------------------------------------------------------------
(* Runs of ApgCode: construction from a string, then pulls from cells().   *)

MaxDigits == 2

\* apgcode_glider
ApgCodeGlider == Str(<<"x", "q", "4", "_", "1", "5", "3">>)

\* The two letters of the prefix, whole, cut short, and in a wrong order.
ApgCodeKinds == SeqsUpTo({Ord[c] : c \in {"x", "s", "p", "q"}}, 2)

\* The period field: digits, and a byte that is no digit.
ApgCodePeriods == SeqsUpTo({Ord[c] : c \in {"0", "4", "a"}}, MaxDigits)

\* What follows the prefix: nothing, or an underscore and a body (empty, strips, a skip,
\* a byte outside the Wechsler grammar, a further segment).
ApgCodeTails ==
    { <<>>, Str(<<"_">>), Str(<<"_", "1", "5", "3">>), Str(<<"_", "z", "1">>),
      Str(<<"_", "A">>), Str(<<"_", "1", "_", "3">>) }

\* Period fields around u64::MAX: u64::MAX itself, u64::MAX + 1, the same after a
\* leading zero, and twenty-one digits.
ApgCodeLongPeriods ==
    { U64MaxDigits,
      SubSeq(U64MaxDigits, 1, 19) \o <<54>>,
      <<48>> \o U64MaxDigits,
      <<49>> \o U64MaxDigits }

ApgCodeSources ==
    { k \o p \o t : k \in ApgCodeKinds, p \in ApgCodePeriods, t \in ApgCodeTails }
    \cup { Str(<<"x", c>>) \o p \o Str(<<"_", "1">>) :
             c \in {"s", "p", "q"}, p \in ApgCodeLongPeriods }

InitApgCode ==
    \E src \in ApgCodeSources :
        /\ dec = "apgcode"
        /\ input = src
        /\ newres = ResultOf(ApgCodeNew(src))
        /\ apgcode = IF ApgCodeNew(src).kind = "Ok" THEN Some(ApgCodeNew(src).value) ELSE None
        /\ rle = None /\ plaintext = None /\ wechsler = None /\ macrocell = None
        /\ toks = <<>> /\ out = <<>> /\ docs = <<>>

\* One call of Cells::next on the iterator of ApgCode::cells, which borrows the
\* record's Wechsler decoder and calls its next_cell.
ApgCodePull ==
    /\ dec = "apgcode" /\ IsSome(apgcode) /\ CanPull
    /\ apgcode' = Some([Unwrap(apgcode) EXCEPT !.wechsler = next_cell(@).self])
    /\ out' = Append(out, next_cell(Unwrap(apgcode).wechsler).item)
    /\ UNCHANGED <<dec, input, toks, rle, plaintext, wechsler, macrocell, newres, docs>>

SpecApgCode == InitApgCode /\ [][ApgCodePull]_vars

---------------------------------------------------------------------------
\* The runs of all four decoders.
InitAll == InitRle \/ InitPlaintext \/ InitWechsler \/ InitMacrocell

NextAll == NextRle \/ PlaintextPull \/ WechslerPull \/ MacrocellPull

SpecAll == InitAll /\ [][NextAll]_vars

---------------------------------------------------------------------------
(* Pulling on after the end of the sequence                                *)

\* How many times a run pulls again after the first end-of-sequence.
MaxPastEnd == 2

\* The caller calls next again although it has seen None.
PullsOn == NoneCount(out) >= 1 /\ NoneCount(out) <= MaxPastEnd /\ ~Aborted

\* One more call of Rle::next.
RlePullOn ==
    /\ dec = "rle" /\ IsSome(rle) /\ PullsOn
    /\ LET r == RleNext(Unwrap(rle))
       IN  \/ /\ rle' = Some(r.self)
              /\ out' = Append(out, r.item)
           \/ /\ r.overflow
              /\ rle' = None
              /\ out' = Append(out, PanicItem)
    /\ UNCHANGED <<dec, input, toks, plaintext, wechsler, macrocell, apgcode, newres, docs>>

\* One more call of Plaintext::next.
PlaintextPullOn ==
    /\ dec = "plaintext" /\ IsSome(plaintext) /\ PullsOn
    /\ plaintext' = Some(PlaintextNext(Unwrap(plaintext)).self)
    /\ out' = Append(out, PlaintextNext(Unwrap(plaintext)).item)
    /\ UNCHANGED <<dec, input, toks, rle, wechsler, macrocell, apgcode, newres, docs>>

\* One more call of Wechsler::next_cell.
WechslerPullOn ==
    /\ dec = "wechsler" /\ IsSome(wechsler) /\ PullsOn
    /\ wechsler' = Some(next_cell(Unwrap(wechsler)).self)
    /\ out' = Append(out, next_cell(Unwrap(wechsler)).item)
    /\ UNCHANGED <<dec, input, toks, rle, plaintext, macrocell, apgcode, newres, docs>>

\* One more call of Macrocell::next.
MacrocellPullOn ==
    /\ dec = "macrocell" /\ IsSome(macrocell) /\ PullsOn
    /\ LET r == MacrocellNext(Unwrap(macrocell))
       IN  \/ /\ macrocell' = Some(r.self)
              /\ out' = Append(out, r.item)
           \/ /\ r.overflow
              /\ macrocell' = None
              /\ out' = Append(out, PanicItem)
    /\ UNCHANGED <<dec, input, toks, rle, plaintext, wechsler, apgcode, newres, docs>>

NextPastEnd ==
    \/ RlePull \/ PlaintextPull \/ WechslerPull \/ MacrocellPull
    \/ RlePullOn \/ PlaintextPullOn \/ WechslerPullOn \/ MacrocellPullOn

SpecPastEnd == InitAll /\ [][NextPastEnd]_vars

---------------------------------------------------------------------------
(* Run counts written as 0                                                 *)

\* A token with z digits 0 written in front of its count.
ZTok(n, c, z) == [n |-> n, tag |-> Ord[c], z |-> z]

\* The bytes of such a token: the zeros, the count in decimal (none for 1 not
\* written), then the tag.
RenderZero(t) == [i \in 1..t.z |-> Ord["0"]] \o RenderTok(t)

RECURSIVE RenderZeros(_)
RenderZeros(ts) == IF ts = <<>> THEN <<>> ELSE RenderZero(Head(ts)) \o RenderZeros(Tail(ts))

ZeroAlphabet ==
    {ZTok(0, c, z) : c \in {"o", "b", "$"}, z \in 0..2}
    \cup {ZTok(2, "o", 0), ZTok(2, "o", 1), ZTok(0, "A", 1), ZTok(0, "!", 1)}

\* Bodies on one line with counts written as 0, 00 or not at all, and bodies whose
\* count leaves i64.
RleZeroSources ==
    {[lines |-> <<RenderZeros(ts)>>, toks |-> ts] : ts \in SeqsUpTo(ZeroAlphabet, MaxToks)}
    \cup {[lines |-> <<l>>, toks |-> <<>>] :
              l \in {WideMinusTwo \o Str(<<"o">>), Str(<<"0">>) \o WidePlusTwo \o Str(<<"o">>)}}

InitZero == InitRleOver(RleZeroSources)

SpecZero == InitZero /\ [][RlePull]_vars

---------------------------------------------------------------------------
(* The caller that pulls until exhaustion                                  *)

\* One pull of whatever decoder the run has.
Pulls == RlePull \/ PlaintextPull \/ WechslerPull \/ MacrocellPull

\* The most bytes of an input of these runs, the vectors of the tests aside.
MaxPullBytes == 3

\* The inputs of these runs: the short ones, and for Rle the glider, a state code
\* beyond 8 bits and a count beyond i64.
InitPulls ==
    /\ InitAll
    /\ \/ dec = "wechsler" /\ Len(input) <= MaxPullBytes
       \/ dec # "wechsler" /\ Len(input) <= 1 /\ Len(Flatten(input)) <= MaxPullBytes
       \/ dec = "rle" /\ toks = GliderToks
       \/ dec = "rle" /\ input = <<WideMinusTwo \o Str(<<"b">>), Str(<<"o">>)>>

\* The caller's loop goes on pulling while it has not seen the end of the sequence:
\* a pull that can be made is made.
SpecPulls == InitPulls /\ [][Pulls]_vars /\ WF_vars(Pulls)

---------------------------------------------------------------------------
(* The decoders over a line source that fails                              *)

\* The most lines around a line that the line source fails to read.
MaxIoLines == 2

\* The lines ls with a failure of the line source after the first k of them.
FailAfter(ls, k) == SubSeq(ls, 1, k) \o <<IoErrorItem>> \o SubSeq(ls, k + 1, Len(ls))

\* Inputs of a buffered reader that fails on one line: in front of, between and
\* behind up to MaxIoLines lines of alphabet.
IoSources(alphabet) ==
    UNION {{FailAfter(ls, k) : k \in 0..Len(ls)} : ls \in SeqsUpTo(alphabet, MaxIoLines)}

\* Comment, header and body lines of the three formats that are read by lines.
RleIoLines ==
    { Str(<<"#", "c">>), Str(<<"x", " ", "=", " ", "1", ",", " ", "y", " ", "=", " ", "1">>),
      Str(<<"o", "$">>), Str(<<"2", "o", "!">>) }
PlaintextIoLines == {Str(<<"!", "c">>), Str(<<".", "O">>), Str(<<"O", "z">>)}
MacrocellIoLines ==
    { Str(<<"[", "M", "2", "]">>), Str(<<"#", "R", " ", "B", "3", "/", "S", "2", "3">>),
      Str(<<"*", "*", "$">>), Str(<<"1", " ", "0", " ", "0", " ", "0", " ", "2">>) }

\* Rle::new, Plaintext::new and Macrocell::new over these inputs.
InitIo ==
    \/ InitRleOver({[lines |-> ls, toks |-> <<>>] : ls \in IoSources(RleIoLines)})
    \/ \E src \in IoSources(PlaintextIoLines) :
          /\ dec = "plaintext"
          /\ input = src
          /\ plaintext = (IF PlaintextNew(src).kind = "Ok" THEN Some(PlaintextNew(src).value) ELSE None)
          /\ newres = ResultOf(PlaintextNew(src))
          /\ rle = None /\ wechsler = None /\ macrocell = None /\ apgcode = None
          /\ toks = <<>> /\ out = <<>> /\ docs = <<>>
    \/ \E src \in IoSources(MacrocellIoLines) :
          /\ dec = "macrocell"
          /\ input = src
          /\ macrocell = (IF MacrocellNew(src).kind = "Ok" THEN Some(MacrocellNew(src).value) ELSE None)
          /\ newres = ResultOf(MacrocellNew(src))
          /\ rle = None /\ plaintext = None /\ wechsler = None /\ apgcode = None
          /\ toks = <<>> /\ out = <<>> /\ docs = <<>>

NextIo == RlePull \/ PlaintextPull \/ MacrocellPull

SpecIo == InitIo /\ [][NextIo]_vars

---------------------------------------------------------------------------
(* One grid in two formats                                                 *)

\* The most rows and columns of an enumerated grid.
MaxRows == 2
MaxCols == 3

\* The grid of rle_glider and plaintext_glider.
GliderGrid == <<<<0, 1, 0>>, <<0, 0, 1>>, <<1, 1, 1>>>>

\* The two-state grids: rows of one width, 1 for an alive cell and 0 for a dead one.
Grids ==
    UNION {[1..h -> [1..w -> {0, 1}]] : h \in 0..MaxRows, w \in 0..MaxCols} \cup {GliderGrid}

\* The Plaintext rendering: a line for each row, 'O' for alive and '.' for dead.
PlaintextOfGrid(g) ==
    [y \in 1..Len(g) |-> [x \in 1..Len(g[y]) |-> IF g[y][x] = 1 THEN Ord["O"] ELSE Ord["."]]]

\* The run-length tokens of a row: its maximal runs, the count 1 not written.
RECURSIVE RowToks(_)
RowToks(row) ==
    IF row = <<>> THEN <<>>
    ELSE LET n == RunLength(row)
         IN  <<Tok(IF n = 1 THEN 0 ELSE n, IF row[1] = 1 THEN "o" ELSE "b")>>
             \o RowToks(SubSeq(row, n + 1, Len(row)))

\* The run-length tokens of a grid: the rows with a '$' between them, then the '!'.
RECURSIVE GridToks(_)
GridToks(g) ==
    IF g = <<>> THEN <<Tok(0, "!")>>
    ELSE IF Len(g) = 1 THEN RowToks(g[1]) \o <<Tok(0, "!")>>
    ELSE RowToks(g[1]) \o <<Tok(0, "$")>> \o GridToks(Tail(g))

\* The run-length rendering, on one line.
RleOfGrid(g) == <<RenderToks(GridToks(g))>>

\* Rle::new over the run-length rendering of a grid, or Plaintext::new over its
\* Plaintext rendering; toks holds the grid.
InitGrid ==
    \E g \in Grids :
        /\ toks = g
        /\ out = <<>> /\ docs = <<>>
        /\ wechsler = None /\ macrocell = None /\ apgcode = None
        /\ \/ /\ dec = "rle"
              /\ input = RleOfGrid(g)
              /\ rle = (IF RleNew(input).kind = "Ok" THEN Some(RleNew(input).value) ELSE None)
              /\ newres = ResultOf(RleNew(input))
              /\ plaintext = None
           \/ /\ dec = "plaintext"
              /\ input = PlaintextOfGrid(g)
              /\ plaintext = (IF PlaintextNew(input).kind = "Ok" THEN Some(PlaintextNew(input).value) ELSE None)
              /\ newres = ResultOf(PlaintextNew(input))
              /\ rle = None

NextGrid == RlePull \/ PlaintextPull

SpecGrid == InitGrid /\ [][NextGrid]_vars

---------------------------------------------------------------------------
\* Two decoders over one input, one after the other: when the first has given its
\* end-of-sequence (or could not be built), what it gave is kept in docs and a second
\* one is built over the same input.
Restart ==
    /\ docs = <<>>
    /\ IF out = <<>> THEN newres.kind # "Ok" ELSE Last(out).kind = "None"
    /\ docs' = <<[newres |-> newres, out |-> out]>>
    /\ out' = <<>>
    /\ rle' = (IF dec = "rle" /\ RleNew(input).kind = "Ok" THEN Some(RleNew(input).value) ELSE None)
    /\ plaintext' = (IF dec = "plaintext" /\ PlaintextNew(input).kind = "Ok"
                     THEN Some(PlaintextNew(input).value) ELSE None)
    /\ wechsler' = (IF dec = "wechsler" THEN Some(WechslerNew(input)) ELSE None)
    /\ macrocell' = (IF dec = "macrocell" /\ MacrocellNew(input).kind = "Ok"
                     THEN Some(MacrocellNew(input).value) ELSE None)
    /\ newres' = (IF dec = "rle" THEN ResultOf(RleNew(input))
                  ELSE IF dec = "plaintext" THEN ResultOf(PlaintextNew(input))
                  ELSE IF dec = "macrocell" THEN ResultOf(MacrocellNew(input))
                  ELSE [kind |-> "Ok"])
    /\ UNCHANGED <<dec, input, toks, apgcode>>

\* The RLE inputs that are decoded twice.
RleTwiceSources ==
    RleLineSources \cup RleWideSources
    \cup {GliderRle, GliderCxrleRle, Generations256Rle, GenerationsRle}
    \cup {OneLine(<<>>, ts) : ts \in SeqsUpTo(MultiStateAlphabet, 2)}

InitTwice == InitRleOver(RleTwiceSources) \/ InitPlaintext \/ InitWechsler \/ InitMacrocell

NextTwice == RlePull \/ PlaintextPull \/ WechslerPull \/ MacrocellPull \/ Restart

SpecTwice == InitTwice /\ [][NextTwice]_vars

---------------------------------------------------------------------------
(* What the runs are compared with                                         *)

\* The position of the first end-of-sequence among items (Len + 1 if there is none).
FirstNone(items) ==
    IF \E i \in 1..Len(items) : items[i].kind = "None"
    THEN CHOOSE i \in 1..Len(items) :
            /\ items[i].kind = "None"
            /\ \A j \in 1..(i - 1) : items[j].kind # "None"
    ELSE Len(items) + 1

\* The items a consumer gets that pulls until the first end-of-sequence.
Yielded(items) == SubSeq(items, 1, FirstNone(items) - 1)

IsPrefix(a, b) == Len(a) <= Len(b) /\ a = SubSeq(b, 1, Len(a))

\* The first k items of a decoder in state s, pulled one after the other
\* (the state computation wraps, as in a build without overflow checks).
RECURSIVE RleItems(_, _)
RleItems(s, k) ==
    IF k = 0 THEN <<>> ELSE <<RleNext(s).item>> \o RleItems(RleNext(s).self, k - 1)

\* The lines of the input that hold the body: those that are no '#', "x " or "x=" line.
BodyLines(ls) == SelectSeq(ls, LAMBDA l : ~RleSkipsLine(l))

\* The body of this run is the rendering of its tokens, on one or more lines.
BodyIsToks == Flatten(BodyLines(input)) = RenderToks(toks)

\* The run count a token stands for: 1 when no count is written.
Count(t) == IF t.n = 0 THEN 1 ELSE t.n

\* n cells of state st from (x, y) on, one column apart.
Run(x, y, n, st) == [i \in 1..n |-> OkCell(<<x + i - 1, y>>, st)]

\* The run-length expansion of two-state tokens, from the cursor (x, y), with start column x0.
RECURSIVE Expansion(_, _, _, _)
Expansion(ts, x, y, x0) ==
    IF ts = <<>> THEN <<>>
    ELSE LET t == Head(ts)
             n == Count(t)
         IN  IF t.tag = Ord["!"] THEN <<>>
             ELSE IF t.tag = Ord["b"] \/ t.tag = Ord["."] THEN Expansion(Tail(ts), x + n, y, x0)
             ELSE IF t.tag = Ord["o"] THEN Run(x, y, n, 1) \o Expansion(Tail(ts), x + n, y, x0)
             ELSE Expansion(Tail(ts), x0, y + n, x0)

TwoStateTags == {Ord["b"], Ord["."], Ord["o"], Ord["$"], Ord["!"]}

\* A run over a two-state body without #CXRLE line, before any re-parse.
TwoStateRun ==
    /\ dec = "rle" /\ docs = <<>>
    /\ BodyIsToks
    /\ \A i \in 1..Len(toks) : toks[i].tag \in TwoStateTags
    /\ \A i \in 1..Len(input) : ~IsCxrleLine(input[i])

GliderCells ==
    << OkCell(<<1, 0>>, 1), OkCell(<<2, 1>>, 1), OkCell(<<0, 2>>, 1), OkCell(<<1, 2>>, 1),
       OkCell(<<2, 2>>, 1) >>

\* C1: on a two-state body (run counts and the tags b, ., o, $, !) the pulls yield the
\* cells of the run-length expansion, in order: what was pulled so far is a prefix of
\* the expansion, and all of it once end-of-sequence is returned.  The glider gives the
\* header {3, 3, "B3/S23"} and the cells (1,0),(2,1),(0,2),(1,2),(2,2).
C1_RunLengthExpansion ==
    TwoStateRun =>
        /\ newres.kind = "Ok"
        /\ IsPrefix(Yielded(out), Expansion(toks, 0, 0, 0))
        /\ NoneCount(out) > 0 => Yielded(out) = Expansion(toks, 0, 0, 0)
        /\ input = GliderRle.lines =>
              /\ Unwrap(rle).header_data =
                     Some([x |-> 3, y |-> 3, rule |-> Some(Str(<<"B", "3", "/", "S", "2", "3">>))])
              /\ NoneCount(out) > 0 => Yielded(out) = GliderCells

\* The glider of the tests is decoded to its end.
C1_Witness ==
    /\ TwoStateRun /\ input = GliderRle.lines
    /\ Len(out) = 6 /\ Last(out) = NoneItem

---------------------------------------------------------------------------
(* The origin of a #CXRLE line                                             *)

\* The item moved by the origin o; errors and end-of-sequence stay as they are.
Shift(item, o) ==
    IF item.kind = "Ok"
    THEN OkCell(<<item.position[1] + o[1], item.position[2] + o[2]>>, item.state)
    ELSE item

OriginsDeclared == Origins \cup {<<2, 1>>}

\* The input starts with the #CXRLE line of the origin o and has no other #CXRLE line.
LeadingOrigin(o) ==
    /\ dec = "rle" /\ docs = <<>>
    /\ input # <<>> /\ input[1] = CxrleLine(o)
    /\ \A i \in 2..Len(input) : ~IsCxrleLine(input[i])

GliderCxrleCells ==
    << OkCell(<<0, -1>>, 1), OkCell(<<1, 0>>, 1), OkCell(<<-1, 1>>, 1), OkCell(<<0, 1>>, 1),
       OkCell(<<1, 1>>, 1) >>

\* C2: with a leading "#CXRLE Pos=ox,oy" line every item is the item that the input
\* without this line gives, moved by (ox, oy); a '$' therefore goes back to column ox.
\* The origin (-1,-1) before "bo$2bo$3o!" gives (0,-1),(1,0),(-1,1),(0,1),(1,1).
C2_OriginTranslates ==
    \A o \in OriginsDeclared :
        LeadingOrigin(o) =>
            /\ newres = ResultOf(RleNew(Tail(input)))
            /\ newres.kind = "Ok" =>
                  LET ref == RleItems(RleNew(Tail(input)).value, Len(out))
                  IN  \A i \in 1..Len(out) : out[i].kind = "Panic" \/ out[i] = Shift(ref[i], o)
            /\ (input = GliderCxrleRle.lines /\ NoneCount(out) > 0) => Yielded(out) = GliderCxrleCells

\* A body with an origin off both axes is decoded beyond a '$' that is followed by a cell.
C2_Witness ==
    /\ LeadingOrigin(<<3, -2>>)
    /\ toks = <<Tok(0, "o"), Tok(2, "$"), Tok(2, "o")>>
    /\ out = <<OkCell(<<3, -2>>, 1), OkCell(<<3, 0>>, 1), OkCell(<<4, 0>>, 1), NoneItem>>

---------------------------------------------------------------------------
(* The states of multi-state bodies                                        *)

Letters == {Ord[c] : c \in {"A", "B", "C", "D", "E", "F", "G", "H", "I", "J", "K", "L", "M",
                            "N", "O", "P", "Q", "R", "S", "T", "U", "V", "W", "X"}}
Prefixes == {Ord[c] : c \in {"p", "q", "r", "s", "t", "u", "v", "w", "x", "y"}}

\* The states the tokens stand for: 1 for 'o', the letter index 1..24 for 'A'..'X',
\* 24 * (prefix - 'o') + index for a letter after a prefix; each run repeats its state.
\* The count of a two-byte tag is written before its prefix (carried).
RECURSIVE States(_, _, _)
States(ts, prefix, carried) ==
    IF ts = <<>> THEN <<>>
    ELSE LET t == Head(ts)
         IN  IF t.tag = Ord["!"] THEN <<>>
             ELSE IF t.tag = Ord["o"]
                  THEN [i \in 1..Count(t) |-> 1] \o States(Tail(ts), prefix, 0)
             ELSE IF t.tag \in Letters
                  THEN [i \in 1..(IF carried > 0 THEN carried ELSE Count(t)) |->
                           24 * (prefix - Ord["o"]) + (t.tag + 1 - Ord["A"])]
                       \o States(Tail(ts), Ord["o"], 0)
             ELSE IF t.tag \in Prefixes THEN States(Tail(ts), t.tag, t.n)
             ELSE States(Tail(ts), prefix, 0)

StatesOf(ts) == States(ts, Ord["o"], 0)

\* Each prefix of the tokens is followed at once by a letter; no other tag is unknown.
WellFormedStates(ts) ==
    /\ \A i \in 1..Len(ts) : ts[i].tag \in TwoStateTags \cup Letters \cup Prefixes
    /\ \A i \in 1..Len(ts) :
          ts[i].tag \in Prefixes => i < Len(ts) /\ ts[i + 1].tag \in Letters /\ ts[i + 1].n = 0

MultiStateRun == dec = "rle" /\ docs = <<>> /\ BodyIsToks /\ WellFormedStates(toks)

CellStates(items) ==
    LET cells == SelectSeq(items, LAMBDA it : it.kind = "Ok")
    IN  [i \in 1..Len(cells) |-> cells[i].state]

\* C3: the states of the cells pulled are, in order, the states the tags stand for.
C3_StatesResolved ==
    MultiStateRun => IsPrefix(CellStates(Yielded(out)), StatesOf(toks))

\* The same, for bodies whose states all are below 256.
C3_StatesBelow256 ==
    (MultiStateRun /\ \A i \in 1..Len(StatesOf(toks)) : StatesOf(toks)[i] < 256)
        => /\ IsPrefix(CellStates(Yielded(out)), StatesOf(toks))
           /\ NoneCount(out) > 0 => CellStates(Yielded(out)) = StatesOf(toks)
           /\ (input = Generations256Rle.lines /\ NoneCount(out) > 0) =>
                  CellStates(Yielded(out)) = <<1, 200, 177, 230, 89, 45, 45>>

---------------------------------------------------------------------------
(* The end of an RLE document                                              *)

HasBang(l) == \E j \in 1..Len(l) : l[j] = Ord["!"]
BangAt(l) == CHOOSE j \in 1..Len(l) : l[j] = Ord["!"] /\ \A k \in 1..(j - 1) : l[k] # Ord["!"]

\* The lines the body is read from: those after the preamble that new() consumes,
\* which ends with the first line that is no '#', "x " or "x=" line.
IsBodyLine(ls, i) == ~RleSkipsLine(ls[i])

\* The body has a terminator: some body line has a '!'.
Terminated(ls) == \E i \in 1..Len(ls) : IsBodyLine(ls, i) /\ HasBang(ls[i])

\* The first body line with a '!'.
BangLine(ls) ==
    CHOOSE i \in 1..Len(ls) :
        /\ IsBodyLine(ls, i) /\ HasBang(ls[i])
        /\ \A k \in 1..(i - 1) : ~(IsBodyLine(ls, k) /\ HasBang(ls[k]))

\* The bytes that neither yield a cell nor fail: digits, whitespace, dead tags, row ends.
IsSilent(c) == IsAsciiDigit(c) \/ IsAsciiWhitespace(c) \/ c \in {Ord["b"], Ord["."], Ord["$"]}

\* No terminator, no cell and no error is left in the decoder s.
SilentTail(s) ==
    /\ s.alive_count = 0 /\ s.state_prefix = None
    /\ IsSome(s.current_line) => \A j \in 1..Len(Unwrap(s.current_line)) : IsSilent(Unwrap(s.current_line)[j])
    /\ \A i \in 1..Len(s.lines) :
          /\ ~IsIoError(s.lines[i])
          /\ RleSkipsLine(s.lines[i]) \/ \A j \in 1..Len(s.lines[i]) : IsSilent(s.lines[i][j])

\* The first end-of-sequence of the first document has just been returned, after cells
\* only: no byte before it was outside the grammar, so a '!' was read as a tag and not as
\* the second byte of a state code.
AtFirstNone ==
    /\ dec = "rle" /\ docs = <<>> /\ IsSome(rle)
    /\ out # <<>> /\ FirstNone(out) = Len(out)
    /\ \A i \in 1..(Len(out) - 1) : out[i].kind = "Ok"

\* C6: the pull that reads the '!' returns end-of-sequence with everything after the '!'
\* unread (the rest of its line and all later lines); without a '!' the end of the input
\* gives end-of-sequence: a decoder with nothing but silent bytes left returns
\* end-of-sequence, never an error, and has then read all lines.
C6_TerminatorAndEof ==
    /\ AtFirstNone =>
          IF Terminated(input)
          THEN LET i == BangLine(input)
               IN  /\ Unwrap(rle).lines = From(input, i + 1)
                   /\ Unwrap(rle).current_line = Some(From(input[i], BangAt(input[i]) + 1))
          ELSE /\ Unwrap(rle).lines = <<>>
               /\ IsSome(Unwrap(rle).current_line) => Unwrap(Unwrap(rle).current_line) = <<>>
    /\ (dec = "rle" /\ IsSome(rle) /\ SilentTail(Unwrap(rle))) =>
          /\ RleNext(Unwrap(rle)).item = NoneItem
          /\ RleNext(Unwrap(rle)).self.lines = <<>>

\* A '!' ended the sequence while a line and the rest of its own line were unread.
C6_Witness ==
    /\ AtFirstNone /\ Terminated(input)
    /\ Unwrap(rle).lines # <<>>
    /\ Unwrap(rle).current_line = Some(<<Ord["o"]>>)
    /\ Len(out) > 1

\* The input ended without a '!' after a cell: end-of-sequence.
C6_EofReached ==
    /\ AtFirstNone /\ ~Terminated(input)
    /\ Len(out) > 1 /\ out[1].kind = "Ok"

---------------------------------------------------------------------------
(* Documents one after the other                                           *)

\* The first document was pulled to its first end-of-sequence, then the rest re-parsed.
Reparsed == dec = "rle" /\ Len(docs) = 1 /\ NoneCount(docs[1].out) = 1

\* C7: for an input D1 ++ D2, D1 ending with the line of the first '!': the header, the
\* position metadata and the cells pulled until the first end-of-sequence are those of
\* D1 decoded alone, and after re-parsing the rest the result of the construction, the
\* header, the position metadata and the items pulled are those of D2 decoded alone.
C7_RemainderIsNextDocument ==
    (Reparsed /\ Terminated(input)) =>
        LET i == BangLine(input)
            D1 == SubSeq(input, 1, i)
            D2 == From(input, i + 1)
            r1 == RleNew(D1)
            r2 == RleNew(D2)
        IN  /\ r1.kind = "Ok"
            /\ docs[1].header_data = r1.value.header_data
            /\ docs[1].cxrle_data = r1.value.cxrle_data
            /\ docs[1].out = RleItems(r1.value, Len(docs[1].out))
            /\ newres = ResultOf(r2)
            /\ r2.kind = "Ok" =>
                  /\ Unwrap(rle).header_data = r2.value.header_data
                  /\ Unwrap(rle).cxrle_data = r2.value.cxrle_data
                  /\ out = RleItems(r2.value, Len(out))

\* Two documents, the second with its own origin, are both decoded to their ends.
C7_Witness ==
    /\ Reparsed
    /\ input = <<Str(<<"2", "o", "!">>),
                 Str(<<"#", "C", "X", "R", "L", "E", " ", "P", "o", "s", "=", "2", ",", "1">>),
                 Str(<<"o", "$">>)>>
    /\ docs[1].out = <<OkCell(<<0, 0>>, 1), OkCell(<<1, 0>>, 1), NoneItem>>
    /\ out = <<OkCell(<<2, 1>>, 1), NoneItem>>

---------------------------------------------------------------------------
(* The grid of a Plaintext document                                        *)

GridBytes == {Ord["."], Ord["O"], Ord["*"]}

\* The rows: the lines that are no '!' comment, the first of them being row 0.
Rows(lines) == SelectSeq(lines, LAMBDA l : ~IsPlaintextComment(l))

\* The column of byte j of a row: the number of '.', 'O' and '*' before it.
ColumnOf(l, j) == Cardinality({k \in 1..(j - 1) : l[k] \in GridBytes})

\* The cells of row r, from left to right: one for each 'O' and '*'.
RowCells(l, r) ==
    LET at == SelectSeq([j \in 1..Len(l) |-> j], LAMBDA j : l[j] = Ord["O"] \/ l[j] = Ord["*"])
    IN  [n \in 1..Len(at) |-> OkCoord(<<ColumnOf(l, at[n]), r>>)]

\* The cells of the rows from row r on, row by row.
RECURSIVE GridCells(_, _)
GridCells(rows, r) ==
    IF rows = <<>> THEN <<>> ELSE RowCells(Head(rows), r) \o GridCells(Tail(rows), r + 1)

\* Every byte of every row is '.', 'O', '*' or whitespace.
IsGrid(lines) ==
    \A i \in 1..Len(lines) :
        IsPlaintextComment(lines[i]) \/
        \A j \in 1..Len(lines[i]) : lines[i][j] \in GridBytes \/ IsAsciiWhitespace(lines[i][j])

\* C8: Plaintext yields the cells of the grid in row-major order: '!' lines, leading or
\* between rows, are no rows; the r-th other line is row r (empty ones too); '.', 'O'
\* and '*' take a column each, whitespace none; each 'O' and '*' is a cell.  The glider
\* gives (1,0),(2,1),(0,2),(1,2),(2,2).
C8_RowMajorGrid ==
    (dec = "plaintext" /\ IsGrid(input)) =>
        /\ newres.kind = "Ok"
        /\ IsPrefix(Yielded(out), GridCells(Rows(input), 0))
        /\ NoneCount(out) > 0 => Yielded(out) = GridCells(Rows(input), 0)
        /\ (input = PlaintextGlider /\ NoneCount(out) > 0) =>
              Yielded(out) = << OkCoord(<<1, 0>>), OkCoord(<<2, 1>>), OkCoord(<<0, 2>>),
                                OkCoord(<<1, 2>>), OkCoord(<<2, 2>>) >>

\* An empty row 0, a comment line between the rows, and a row 1 with whitespace between
\* its two cells are decoded to the end.
C8_Witness ==
    /\ dec = "plaintext"
    /\ input = <<Str(<<>>), Str(<<"!", "O">>), Str(<<"O", " ", "O">>)>>
    /\ out = <<OkCoord(<<0, 1>>), OkCoord(<<1, 1>>), NoneItem>>

---------------------------------------------------------------------------
(* The strips and the skip codes of a Wechsler string                      *)

IsStripChar(c) == c \in Ord["1"]..Ord["9"] \/ c \in Ord["a"]..Ord["v"]

\* The 5-bit value of a strip character: 1..9 for the digits, 10..31 for a..v.
StripValue(c) == IF c \in Ord["1"]..Ord["9"] THEN c - Ord["0"] ELSE c - Ord["a"] + 10

\* The set of bit numbers whose powers of two add up to v.
Weight(S) ==
    (IF 0 \in S THEN 1 ELSE 0) + (IF 1 \in S THEN 2 ELSE 0) + (IF 2 \in S THEN 4 ELSE 0)
    + (IF 3 \in S THEN 8 ELSE 0) + (IF 4 \in S THEN 16 ELSE 0)
BitsOf(v) == CHOOSE S \in SUBSET (0..4) : Weight(S) = v

\* The cells of a strip in column x of the band with top row y, in increasing row.
StripCells(c, x, y) ==
    LET rows == SelectSeq(<<0, 1, 2, 3, 4>>, LAMBDA i : i \in BitsOf(StripValue(c)))
    IN  [n \in 1..Len(rows) |-> OkCoord(<<x, y + rows[n]>>)]

\* The cells of a string of strips only: strip k is column k - 1 of the band at row 0.
RECURSIVE StripsOnly(_, _)
StripsOnly(cs, x) ==
    IF cs = <<>> THEN <<>> ELSE StripCells(Head(cs), x, 0) \o StripsOnly(Tail(cs), x + 1)

\* The bytes of the string read so far.
BytesRead == Len(input) - Len(Unwrap(wechsler).bytes)

\* C9: a strip character (1..9, a..v) is a mask of five cells: it yields one coordinate
\* (column, band top + i) per set bit i, in increasing i; index stays within 0..5, and the
\* column is one less than the strips read while a strip is open (index < 5) and equal to
\* them once its five bits are consumed.  "153" gives (0,0),(1,0),(1,2),(2,0),(2,1).
C9_StripsAreMasks ==
    dec = "wechsler" =>
        /\ Unwrap(wechsler).index \in 0..5
        /\ (\A k \in 1..Len(input) : IsStripChar(input[k])) =>
              /\ IsPrefix(Yielded(out), StripsOnly(input, 0))
              /\ NoneCount(out) > 0 => Yielded(out) = StripsOnly(input, 0)
              /\ Unwrap(wechsler).position[2] = 0
              /\ Unwrap(wechsler).position[1] =
                     IF Unwrap(wechsler).index < 5 THEN BytesRead - 1 ELSE BytesRead
        /\ (input = Str(<<"1", "5", "3">>) /\ NoneCount(out) > 0) =>
              Yielded(out) = << OkCoord(<<0, 0>>), OkCoord(<<1, 0>>), OkCoord(<<1, 2>>),
                                OkCoord(<<2, 0>>), OkCoord(<<2, 1>>) >>

\* The strips a (rows 1 and 3) and v (all five rows) are decoded to the end.
C9_Witness ==
    /\ dec = "wechsler" /\ input = Str(<<"a", "v">>)
    /\ out = << OkCoord(<<0, 1>>), OkCoord(<<0, 3>>), OkCoord(<<1, 0>>), OkCoord(<<1, 1>>),
                OkCoord(<<1, 2>>), OkCoord(<<1, 3>>), OkCoord(<<1, 4>>), NoneItem >>

\* The items of a Wechsler string from the cursor (x, y) on, up to its end or to its
\* first error: 0, w, x skip 1, 2, 3 columns, y and a count byte 4 + n columns (0..9 for
\* the digits, 10..35 for a..z), z starts the next band five rows down at column 0.
RECURSIVE Bands(_, _, _)
Bands(cs, x, y) ==
    IF cs = <<>> THEN <<>>
    ELSE LET c == Head(cs)
         IN  IF IsStripChar(c) THEN StripCells(c, x, y) \o Bands(Tail(cs), x + 1, y)
             ELSE IF c = Ord["0"] THEN Bands(Tail(cs), x + 1, y)
             ELSE IF c = Ord["w"] THEN Bands(Tail(cs), x + 2, y)
             ELSE IF c = Ord["x"] THEN Bands(Tail(cs), x + 3, y)
             ELSE IF c = Ord["z"] THEN Bands(Tail(cs), 0, y + 5)
             ELSE IF c = Ord["y"]
             THEN IF Len(cs) = 1 THEN <<ErrItem("UnexpectedChar", <<Ord["y"]>>)>>
                  ELSE IF cs[2] \in Ord["0"]..Ord["9"]
                  THEN Bands(Tail(Tail(cs)), x + 4 + (cs[2] - Ord["0"]), y)
                  ELSE IF cs[2] \in Ord["a"]..Ord["z"]
                  THEN Bands(Tail(Tail(cs)), x + 4 + 10 + (cs[2] - Ord["a"]), y)
                  ELSE <<ErrItem("UnexpectedChar", <<cs[2]>>)>>
             ELSE <<ErrItem("UnexpectedChar", <<c>>)>>

\* The position of the first item that is an error or end-of-sequence (Len + 1 if none).
FirstStop(items) ==
    IF \E i \in 1..Len(items) : items[i].kind # "Ok"
    THEN CHOOSE i \in 1..Len(items) :
            /\ items[i].kind # "Ok"
            /\ \A j \in 1..(i - 1) : items[j].kind = "Ok"
    ELSE Len(items) + 1

Stopped(items) == FirstStop(items) <= Len(items)

\* The items up to the first error, with it, or up to the first end-of-sequence, without it.
Observed(items) ==
    IF Stopped(items) /\ items[FirstStop(items)].kind = "Err"
    THEN SubSeq(items, 1, FirstStop(items))
    ELSE SubSeq(items, 1, FirstStop(items) - 1)

TwinBeesCells ==
    [n \in 1..28 |->
        OkCoord(<< <<1, 0>>, <<1, 1>>, <<2, 0>>, <<2, 1>>, <<8, 0>>, <<8, 1>>, <<9, 0>>, <<9, 1>>,
                   <<0, 17>>, <<0, 18>>, <<1, 17>>, <<1, 19>>, <<2, 19>>, <<3, 17>>, <<3, 18>>,
                   <<3, 19>>, <<7, 17>>, <<7, 18>>, <<7, 19>>, <<8, 19>>, <<9, 17>>, <<9, 19>>,
                   <<10, 17>>, <<10, 18>>, <<1, 27>>, <<1, 28>>, <<2, 27>>, <<2, 28>> >>[n])]

\* C10: the skip codes move the cursor and yield nothing: 0, w, x by 1, 2, 3 columns,
\* y with a count byte by 4 + n columns, z to column 0 five rows down; a y at the end of
\* the string gives UnexpectedChar('y'), a y before a byte that is no count gives
\* UnexpectedChar of that byte.  The items pulled are those of the string read this way.
C10_SkipCodes ==
    dec = "wechsler" =>
        /\ IsPrefix(Observed(out), Bands(input, 0, 0))
        /\ Stopped(out) => Observed(out) = Bands(input, 0, 0)
        /\ (input = TwinBeesShuttle /\ Stopped(out)) => Observed(out) = TwinBeesCells

\* After a skip of 4 + 35 columns (y with the count byte z) a strip is decoded.
C10_Witness ==
    /\ dec = "wechsler" /\ input = Str(<<"y", "z", "1">>)
    /\ out = <<OkCoord(<<39, 0>>), NoneItem>>

\* A y at the end of the string, after a band change and a strip, is an error.
C10_TrailingY ==
    /\ dec = "wechsler" /\ input = Str(<<"z", "1", "y">>)
    /\ out = <<OkCoord(<<0, 5>>), ErrItem("UnexpectedChar", <<Ord["y"]>>)>>

---------------------------------------------------------------------------
(* Errors                                                                  *)

\* C4: once a pull has returned an error, every later pull returns end-of-sequence.
C4_ErrorIsFinal ==
    \A i \in 1..Len(out) : \A j \in (i + 1)..Len(out) :
        out[i].kind = "Err" => out[j].kind = "None"

\* The decoder of the run, its constructor and its next.
Decoder ==
    IF dec = "rle" THEN rle ELSE IF dec = "plaintext" THEN plaintext
    ELSE IF dec = "wechsler" THEN wechsler ELSE macrocell

NewOf(d, in) ==
    IF d = "rle" THEN RleNew(in) ELSE IF d = "plaintext" THEN PlaintextNew(in)
    ELSE IF d = "wechsler" THEN [kind |-> "Ok", value |-> WechslerNew(in)] ELSE MacrocellNew(in)

NextOf(d, s) ==
    IF d = "rle" THEN RleNext(s) ELSE IF d = "plaintext" THEN PlaintextNext(s)
    ELSE IF d = "wechsler" THEN next_cell(s) ELSE MacrocellNext(s)

\* The successes a decoder in state s yields until its first error or end-of-sequence.
RECURSIVE SuccessesFrom(_, _)
SuccessesFrom(d, s) ==
    IF NextOf(d, s).item.kind = "Ok"
    THEN <<NextOf(d, s).item>> \o SuccessesFrom(d, NextOf(d, s).self)
    ELSE <<>>

\* The successes of the input in, decoded from its construction on.
SuccessesOf(d, in) == IF NewOf(d, in).kind = "Ok" THEN SuccessesFrom(d, NewOf(d, in).value) ELSE <<>>

\* The last item pulled is an error of the grammar, and the first item that is no success.
AtFirstError ==
    /\ docs = <<>> /\ out # <<>>
    /\ FirstStop(out) = Len(out)
    /\ Last(out).kind = "Err" /\ Last(out).error # "IoError"

\* Where the decoder stands: the number of the last line taken from the line source,
\* that line (for Wechsler the string is the one line), and the number of its bytes read.
ErrLineNo == IF dec = "wechsler" THEN 1 ELSE Len(input) - Len(Unwrap(Decoder).lines)
ErrLine == IF dec = "wechsler" THEN input ELSE input[ErrLineNo]
ErrByteNo ==
    IF dec = "wechsler" THEN Len(input) - Len(Unwrap(wechsler).bytes)
    ELSE Len(ErrLine) - Len(Unwrap(Unwrap(Decoder).current_line))

\* The input cut just before byte k of the line where the decoder stands.
CutBefore(k) ==
    IF dec = "wechsler" THEN SubSeq(input, 1, k - 1)
    ELSE SubSeq(input, 1, ErrLineNo - 1) \o <<SubSeq(ErrLine, 1, k - 1)>>

Front(items) == SubSeq(items, 1, Len(items) - 1)

\* C5 as stated, for all four decoders, read in its weakest sense: at the first error
\* there is a byte k of the line being decoded that the error carries (at the end of
\* what it carries), such that the values before the error are the successes of the
\* input cut just before byte k.
C5_ErrorAtByte ==
    AtFirstError =>
        \E k \in 1..Len(ErrLine) :
            /\ Last(out).arg # <<>> /\ Last(Last(out).arg) = ErrLine[k]
            /\ Front(out) = SuccessesOf(dec, CutBefore(k))

\* C5, amended: for Plaintext, Rle and Wechsler the error is returned by the pull that
\* reads the offending byte k (the decoder stands just behind it), it carries that byte
\* (Rle: at the end of the state code of one or two bytes), and the values before it are
\* successes and are the successes of the input cut just before byte k.  For Macrocell
\* the unit is the line: the error carries the line the decoder has just taken, and the
\* nodes before it are those of the input cut before that line.
C5_ErrorsInOrder ==
    AtFirstError =>
        IF dec = "macrocell"
        THEN /\ Last(out).arg = ErrLine
             /\ Front(out) = SuccessesOf(dec, SubSeq(input, 1, ErrLineNo - 1))
        ELSE /\ ErrByteNo \in 1..Len(ErrLine)
             /\ Last(out).arg # <<>> /\ Last(Last(out).arg) = ErrLine[ErrByteNo]
             /\ Front(out) = SuccessesOf(dec, CutBefore(ErrByteNo))

\* An Rle body with a cell before a state code that is no state.
C5_Witness ==
    /\ dec = "rle" /\ AtFirstError
    /\ toks = <<Tok(0, "o"), Tok(0, "p"), Tok(0, "z")>>
    /\ out = <<OkCell(<<0, 0>>, 1), ErrItem("InvalidState", <<Ord["p"], Ord["z"]>>)>>

\* A Macrocell error after a node: the error carries its line.
C5_MacrocellLine ==
    /\ dec = "macrocell" /\ AtFirstError
    /\ Len(out) = 2 /\ Last(out).arg = Str(<<"*", "*", "z">>)

---------------------------------------------------------------------------
(* ApgCode records                                                         *)

\* The position of the first byte b of s (Len + 1 if there is none).
IndexOf(s, b) ==
    IF \E i \in 1..Len(s) : s[i] = b
    THEN CHOOSE i \in 1..Len(s) : s[i] = b /\ \A j \in 1..(i - 1) : s[j] # b
    ELSE Len(s) + 1

\* The parts of a string read as <kind><digits>_<body>.
RecordKind == SubSeq(input, 1, 2)
RecordDigits == SubSeq(input, 3, IndexOf(input, Ord["_"]) - 1)
RecordBody == From(input, IndexOf(input, Ord["_"]) + 1)

OnlyDigits(ds) == \A i \in 1..Len(ds) : ds[i] \in Ord["0"]..Ord["9"]

\* A number in decimal without leading zeros.
Canonical(ds) == IF StripZeros(ds) = <<>> THEN <<Ord["0"]>> ELSE StripZeros(ds)

\* The period field is the decimal of a value of the period's type (u64).
IsPeriod(ds) ==
    /\ ds # <<>> /\ OnlyDigits(ds)
    /\ \/ Len(Canonical(ds)) < 20
       \/ Len(Canonical(ds)) = 20 /\ DigitsLeq(Canonical(ds), U64MaxDigits)

\* The input is a record: a kind, a period that a u64 holds, an underscore and a body
\* (which has no underscore of its own).
IsRecord ==
    /\ IndexOf(input, Ord["_"]) > 3 /\ IndexOf(input, Ord["_"]) <= Len(input)
    /\ RecordKind \in {Str(<<"x", "s">>), Str(<<"x", "p">>), Str(<<"x", "q">>)}
    /\ IsPeriod(RecordDigits)
    /\ \A i \in 1..Len(RecordBody) : RecordBody[i] # Ord["_"]

KindName ==
    IF RecordKind = Str(<<"x", "s">>) THEN "StillLife"
    ELSE IF RecordKind = Str(<<"x", "p">>) THEN "Oscillator"
    ELSE "Spaceship"

\* The period is the number written by the digits.
PeriodIs(period, ds) ==
    IF Len(Canonical(ds)) <= 9 THEN Decimal(period) = Canonical(ds) ELSE period = Canonical(ds)

\* C11: ApgCode::new on a record <kind><digits>_<body> (digits a value of the period's
\* type) succeeds with xs -> StillLife, xp -> Oscillator, xq -> Spaceship, the period of
\* xp and xq is the decimal value of the digits, and the items pulled from cells() are
\* those of the Wechsler reading of the body; xq4_153 is a Spaceship of period 4 with the
\* cells (0,0), (1,0), (1,2), (2,0), (2,1).
C11_RecordDecoded ==
    (dec = "apgcode" /\ IsRecord) =>
        /\ newres.kind = "Ok" /\ IsSome(apgcode)
        /\ Unwrap(apgcode).pattern_type = KindName
        /\ KindName # "StillLife" => PeriodIs(Unwrap(apgcode).period, RecordDigits)
        /\ IsPrefix(Observed(out), Bands(RecordBody, 0, 0))
        /\ Stopped(out) => Observed(out) = Bands(RecordBody, 0, 0)
        /\ (input = ApgCodeGlider /\ Stopped(out)) =>
              /\ Unwrap(apgcode).pattern_type = "Spaceship" /\ Unwrap(apgcode).period = 4
              /\ Observed(out) = << OkCoord(<<0, 0>>), OkCoord(<<1, 0>>), OkCoord(<<1, 2>>),
                                    OkCoord(<<2, 0>>), OkCoord(<<2, 1>>) >>
              /\ out[FirstStop(out)] = NoneItem

\* The glider of the test is decoded to its end.
C11_Witness ==
    /\ dec = "apgcode" /\ input = ApgCodeGlider /\ IsRecord /\ newres.kind = "Ok"
    /\ Unwrap(apgcode).pattern_type = "Spaceship" /\ Unwrap(apgcode).period = 4
    /\ Len(out) = 6 /\ Last(out) = NoneItem

\* An oscillator whose period is u64::MAX.
C11_LargestPeriod ==
    /\ dec = "apgcode" /\ input = Str(<<"x", "p">>) \o U64MaxDigits \o Str(<<"_", "1">>)
    /\ IsRecord /\ newres.kind = "Ok" /\ Unwrap(apgcode).period = U64MaxDigits

\* The input is a still-life record whose period field holds digits only, at least one.
IsStillLifeRecord ==
    /\ IndexOf(input, Ord["_"]) > 3 /\ IndexOf(input, Ord["_"]) <= Len(input)
    /\ RecordKind = Str(<<"x", "s">>)
    /\ OnlyDigits(RecordDigits)

\* C12: for a still-life record (prefix xs) whose period field holds only digits,
\* ApgCode::new succeeds and the period is 1, whatever the value of the digits and
\* however many there are.
C12_StillLifePeriodOne ==
    (dec = "apgcode" /\ IsStillLifeRecord) =>
        newres.kind = "Ok" /\ IsSome(apgcode) /\ Unwrap(apgcode).period = 1

\* The same for the period fields whose value a u64 holds.
C12_StillLifeWithinU64 ==
    (dec = "apgcode" /\ IsStillLifeRecord /\ IsPeriod(RecordDigits)) =>
        newres.kind = "Ok" /\ IsSome(apgcode) /\ Unwrap(apgcode).period = 1

\* A still life whose digits are u64::MAX + 1 is rejected.
C12_StillLifeRejected ==
    /\ dec = "apgcode"
    /\ input = Str(<<"x", "s">>) \o SubSeq(U64MaxDigits, 1, 19) \o Str(<<"6", "_", "1">>)
    /\ IsStillLifeRecord /\ newres = Unencodable

\* The first underscore-delimited segment of the input, its first two bytes (fewer if it
\* is shorter), and what it holds after them.
FirstSegment == SubSeq(input, 1, IndexOf(input, Ord["_"]) - 1)
TwoLetters == IF Len(FirstSegment) < 2 THEN FirstSegment ELSE SubSeq(FirstSegment, 1, 2)
PeriodField == SubSeq(FirstSegment, 3, Len(FirstSegment))

\* The input is malformed in one of three ways: its two-letter prefix is none of xs, xp,
\* xq; its period field holds a byte that is no digit; it has no underscore, and so no
\* body segment.
Malformed ==
    \/ TwoLetters \notin {Str(<<"x", "s">>), Str(<<"x", "p">>), Str(<<"x", "q">>)}
    \/ ~OnlyDigits(PeriodField)
    \/ IndexOf(input, Ord["_"]) > Len(input)

\* C13: ApgCode::new returns Err(Unencodable), and no other error, whenever the input is
\* malformed in one of the three ways.
C13_MalformedIsUnencodable ==
    (dec = "apgcode" /\ Malformed) => newres = Unencodable

\* The same for the inputs whose first segment has two bytes or more.
C13_UnencodableFromTwoBytes ==
    (dec = "apgcode" /\ Malformed /\ Len(FirstSegment) >= 2) => newres = Unencodable

\* No construction returns an error other than Unencodable.
C13_NoOtherError ==
    (dec = "apgcode" /\ newres.kind = "Err") => newres = Unencodable

\* A prefix of one letter followed by nothing is malformed and makes ApgCode::new panic.
C13_OneLetter ==
    dec = "apgcode" /\ input = Str(<<"x">>) /\ Malformed /\ newres.kind = "Panic"

\* C14: ApgCode::new is total: for every input, the empty string and the strings whose
\* first underscore-delimited segment has fewer than two bytes included, it returns Ok or
\* an error value and does not panic.
C14_NewIsTotal ==
    dec = "apgcode" => newres.kind \in {"Ok", "Err"}

\* ApgCode::new does not panic on the inputs whose first segment has two bytes or more.
C14_TotalFromTwoBytes ==
    (dec = "apgcode" /\ Len(FirstSegment) >= 2) => newres.kind \in {"Ok", "Err"}

\* The empty string, x and _153 make ApgCode::new panic.
C14_EmptyStringPanics ==
    dec = "apgcode" /\ input = <<>> /\ newres.kind = "Panic"

C14_ShortPrefixPanics ==
    /\ dec = "apgcode" /\ input = Str(<<"_", "1", "5", "3">>)
    /\ newres.kind = "Panic"

---------------------------------------------------------------------------
(* Macrocell                                                               *)

IsHash(line) == line # <<>> /\ line[1] = Ord["#"]
IsM2(line) == Len(line) >= 4 /\ SubSeq(line, 1, 4) = Str(<<"[", "M", "2", "]">>)

\* The position of the first line that starts neither with [M2] nor with '#'
\* (Len + 1 if there is none): the first line of the body.
BodyStart ==
    IF \E i \in 1..Len(input) : ~IsHash(input[i]) /\ ~IsM2(input[i])
    THEN CHOOSE i \in 1..Len(input) :
            /\ ~IsHash(input[i]) /\ ~IsM2(input[i])
            /\ \A j \in 1..(i - 1) : IsHash(input[j]) \/ IsM2(input[j])
    ELSE Len(input) + 1

\* The lines of the body that are no comment.
NodeLinesOf == SelectSeq(SubSeq(input, BodyStart, Len(input)), LAMBDA l : ~IsHash(l))

\* The nodes and errors pulled so far.
Pulled == SelectSeq(out, LAMBDA it : it.kind \in {"Ok", "Err"})

\* The number of nodes among the first i items pulled.
NodesUpTo(i) == Cardinality({j \in 1..i : Pulled[j].kind = "Ok"})

\* Every item pulled is the item of the next line of the body that is no comment, and
\* the k-th node has id k.
ItemsFollowLines ==
    /\ Len(Pulled) <= Len(NodeLinesOf)
    /\ (out # <<>> /\ Last(out) = NoneItem) => Len(Pulled) = Len(NodeLinesOf)
    /\ \A i \in 1..Len(Pulled) :
          \/ Pulled[i].kind = "Ok" /\ Pulled[i].id = NodesUpTo(i)
          \/ Pulled[i] = ErrItem("InvalidNodeLine", NodeLinesOf[i])

\* C15: from the first body line on every line that is no comment gives one pulled item,
\* in the order of the lines, and the k-th node decoded has id k, whatever its variant
\* and its children; comment lines of the body and lines that fail to parse take no id.
C15_OneItemPerLine ==
    (dec = "macrocell" /\ newres.kind = "Ok") => (ItemsFollowLines /\ ~Aborted)

\* The same for the pulls that return: the items pulled before a pull aborts follow the
\* lines, and their ids are 1, 2, 3, ...
C15_ItemsOfReturningPulls ==
    (dec = "macrocell" /\ newres.kind = "Ok") => ItemsFollowLines

\* The pull that reads a line of 256 dead cells and a cell in the next row aborts.
C15_LineWithoutItem ==
    /\ dec = "macrocell" /\ input = <<Dots256 \o Str(<<"$", "*">>)>>
    /\ out = <<PanicItem>>

\* A leaf, a line starting with '#' and a branch with children 0, 1, 2, 3: ids 1 and 2.
C15_CommentTakesNoId ==
    /\ dec = "macrocell"
    /\ input = << Str(<<"*", "*", "$">>), Str(<<"#", "R">>), Str(<<"4", " ", "0", " ", "1", " ", "2", " ", "3">>) >>
    /\ Len(out) = 3 /\ out[1].kind = "Ok" /\ out[1].id = 1
    /\ out[2].kind = "Ok" /\ out[2].id = 2 /\ out[2].data.type = "Node" /\ out[3] = NoneItem

\* A line that fails to parse between two nodes takes no id.
C15_ErrorTakesNoId ==
    /\ dec = "macrocell"
    /\ input = << Str(<<"*", "*", "$">>), Str(<<"x">>), Str(<<"4", " ", "0", " ", "1", " ", "2", " ", "3">>) >>
    /\ Len(out) = 4 /\ out[1].id = 1 /\ out[2].kind = "Err" /\ out[3].kind = "Ok" /\ out[3].id = 2

\* macrocell_glider: three leaves and a branch, ids 1 to 4.
C15_Glider ==
    /\ dec = "macrocell" /\ input = MacrocellGlider
    /\ Len(out) = 5 /\ \A i \in 1..4 : out[i].kind = "Ok" /\ out[i].id = i
    /\ out[4].data = [type |-> "Node", level |-> 4, nw |-> 0, ne |-> 1, sw |-> 2, se |-> 3]

\* The row and the column of byte i of a level-3 line: the number of '$' before it, and
\* the number of '.' and '*' between the last '$' before it and it.
RowOf(l, i) == Cardinality({j \in 1..(i - 1) : l[j] = Ord["$"]})
ColOf(l, i) ==
    Cardinality({j \in 1..(i - 1) : /\ l[j] \in {Ord["."], Ord["*"]}
                                    /\ \A k \in j..(i - 1) : l[k] # Ord["$"]})

\* The alive cells of a level-3 line, as (col, row), and the mask with their bits.
AliveCells(l) == {<<ColOf(l, i), RowOf(l, i)>> : i \in {j \in 1..Len(l) : l[j] = Ord["*"]}}
MaskOf(l) == {(7 - c[2]) * 8 + (7 - c[1]) : c \in AliveCells(l)}

Level3Symbols == {Ord["."], Ord["*"], Ord["$"]}

\* A level-3 leaf line: it starts with one of the three symbols, holds only them and
\* whitespace, and its alive cells lie within the 8 x 8 square.
IsLevel3Leaf(l) ==
    /\ l # <<>> /\ l[1] \in Level3Symbols
    /\ \A i \in 1..Len(l) : l[i] \in Level3Symbols \/ IsAsciiWhitespace(l[i])
    /\ \A c \in AliveCells(l) : c[1] < 8 /\ c[2] < 8

\* The line read by the pull that aborted.
AbortedLine == NodeLinesOf[Len(Pulled) + 1]

\* $$..*$...*$.***$$$$ of macrocell_parse_line
Level3TestLine ==
    Str(<<"$", "$", ".", ".", "*", "$", ".", ".", ".", "*", "$", ".", "*", "*", "*", "$", "$", "$", "$">>)

\* The nodes pulled from level-3 leaf lines hold the masks of their alive cells.
LeavesAreMasks ==
    /\ \A i \in 1..Len(Pulled) :
          IsLevel3Leaf(NodeLinesOf[i]) =>
              /\ Pulled[i].kind = "Ok"
              /\ Pulled[i].data = [type |-> "Level3", bits |-> MaskOf(NodeLinesOf[i])]
    /\ (input = <<Level3TestLine>> /\ out # <<>>) =>
          out[1].data = [type |-> "Level3", bits |-> {45, 36, 30, 29, 28}]

\* C16: a level-3 leaf line is decoded to the 64-bit mask of its alive cells: with a
\* (col, row) cursor from (0,0), '.' advances col, '$' sets col to 0 and advances row,
\* '*' sets bit (7-row)*8 + (7-col) and advances col (bit 63 is the north-west cell);
\* $$..*$...*$.***$$$$ gives rows 2, 3, 4 = 00100000, 00010000, 01110000.
C16_LeafIsMask ==
    (dec = "macrocell" /\ newres.kind = "Ok") =>
        /\ LeavesAreMasks
        /\ Aborted => ~IsLevel3Leaf(AbortedLine)

\* The same for the pulls that return.
C16_MaskOfReturningPulls ==
    (dec = "macrocell" /\ newres.kind = "Ok") => LeavesAreMasks

\* The line of the test is decoded to the three rows of the claim.
C16_TestLine ==
    /\ dec = "macrocell" /\ input = <<Level3TestLine>> /\ IsLevel3Leaf(Level3TestLine)
    /\ out = <<OkNode(1, [type |-> "Level3", bits |-> {45, 36, 30, 29, 28}]), NoneItem>>

\* A row of 256 dead cells and a cell in the next row is a level-3 leaf line: the pull
\* aborts, or returns the leaf with bit 55.
C16_WideRowAborts ==
    /\ dec = "macrocell" /\ input = <<Dots256 \o Str(<<"$", "*">>)>>
    /\ IsLevel3Leaf(input[1]) /\ out = <<PanicItem>>

C16_WideRowWraps ==
    /\ dec = "macrocell" /\ input = <<Dots256 \o Str(<<"$", "*">>)>>
    /\ out = <<OkNode(1, [type |-> "Level3", bits |-> {55}])>>

\* A line read as a level-3 leaf (it starts with one of the three symbols) that holds a
\* byte outside the symbols and whitespace, or an alive cell whose column or row is 8 or
\* more.
IsBadLevel3(l) ==
    /\ l # <<>> /\ l[1] \in Level3Symbols
    /\ \/ \E i \in 1..Len(l) : l[i] \notin Level3Symbols /\ ~IsAsciiWhitespace(l[i])
       \/ \E c \in AliveCells(l) : c[1] >= 8 \/ c[2] >= 8

\* Every pull of such a line returns InvalidNodeLine carrying the line.
BadLevel3Rejected ==
    \A i \in 1..Len(Pulled) :
        IsBadLevel3(NodeLinesOf[i]) => Pulled[i] = ErrItem("InvalidNodeLine", NodeLinesOf[i])

\* C17: on a level-3 line a symbol outside the allowed set, or an alive cell in a row or
\* a column of index 8 or more, makes the pull return InvalidNodeLine carrying the line,
\* and no leaf.
C17_BadLevel3IsInvalid ==
    (dec = "macrocell" /\ newres.kind = "Ok") =>
        /\ BadLevel3Rejected
        /\ Aborted => ~IsBadLevel3(AbortedLine)

\* The same for the lines shorter than 256 bytes, on which the cursor stays within u8.
C17_ShortLines ==
    (dec = "macrocell" /\ newres.kind = "Ok" /\ \A i \in 1..Len(input) : Len(input[i]) < 256) =>
        (BadLevel3Rejected /\ ~Aborted)

\* A cell in column 256 is decoded as the north-west cell by a build without overflow
\* checks; a build with overflow checks aborts.
C17_WrappedColumn ==
    /\ dec = "macrocell" /\ input = <<Dots256 \o Str(<<"*">>)>> /\ IsBadLevel3(input[1])
    /\ out = <<OkNode(1, [type |-> "Level3", bits |-> {63}])>>

C17_WrappedRow ==
    /\ dec = "macrocell" /\ input = <<Dollars256 \o Str(<<"*">>)>> /\ IsBadLevel3(input[1])
    /\ out = <<OkNode(1, [type |-> "Level3", bits |-> {63}])>>

C17_ColumnAborts ==
    /\ dec = "macrocell" /\ input = <<Dots256 \o Str(<<"*">>)>> /\ out = <<PanicItem>>

\* A cell in column 8, a cell in row 8 and a byte outside the grammar are rejected.
C17_Rejected ==
    /\ dec = "macrocell" /\ Len(input) = 1 /\ IsBadLevel3(input[1])
    /\ input[1] \in { Str(<<".", ".", ".", ".", ".", ".", ".", ".", "*">>),
                      Level3TestLine \o Str(<<"*">>), Str(<<"*", "x">>) }
    /\ out = <<ErrItem("InvalidNodeLine", input[1])>>

\* A row of eight dead cells reaches column 8 without an alive cell there: a leaf.
C17_EightDeadCells ==
    /\ dec = "macrocell" /\ input = <<Str(<<".", ".", ".", ".", ".", ".", ".", ".">>)>>
    /\ out = <<OkNode(1, [type |-> "Level3", bits |-> {}])>>

\* The position after the run of bytes that are no whitespace starting at i.
SkipToken(l, i) ==
    IF \E j \in i..Len(l) : IsRegexSpace(l[j])
    THEN CHOOSE j \in i..Len(l) : IsRegexSpace(l[j]) /\ \A k \in i..(j - 1) : ~IsRegexSpace(l[k])
    ELSE Len(l) + 1

\* The whitespace-separated tokens of a line from position i on.
RECURSIVE TokensFrom(_, _)
TokensFrom(l, i) ==
    IF SkipSpace(l, i) > Len(l) THEN <<>>
    ELSE <<SubSeq(l, SkipSpace(l, i), SkipToken(l, SkipSpace(l, i)) - 1)>>
         \o TokensFrom(l, SkipToken(l, SkipSpace(l, i)))

Tokens(l) == TokensFrom(l, 1)

IsInteger(t) == t # <<>> /\ OnlyDigits(t)

\* The value of an integer token of at most 255.
IsState(t) == Len(StripZeros(t)) <= 3 /\ DigitsValue(StripZeros(t)) <= 255
StateOf(t) == DigitsValue(StripZeros(t))

\* A line that begins with 1 followed by four whitespace-separated integers.
IsLevel1Shape(l) ==
    /\ l # <<>> /\ l[1] = Ord["1"]
    /\ Len(Tokens(l)) = 5 /\ Tokens(l)[1] = Str(<<"1">>)
    /\ \A k \in 2..5 : IsInteger(Tokens(l)[k])

\* The item the claim gives for such a line.
Level1Item(l, id) ==
    IF \A k \in 2..5 : IsState(Tokens(l)[k])
    THEN OkNode(id, [type |-> "Level1", nw |-> StateOf(Tokens(l)[2]), ne |-> StateOf(Tokens(l)[3]),
                                        sw |-> StateOf(Tokens(l)[4]), se |-> StateOf(Tokens(l)[5])])
    ELSE ErrItem("InvalidNodeLine", l)

\* C18: a line that begins with 1 followed by four whitespace-separated integers is a
\* level-1 leaf with these values as nw, ne, sw, se when each is at most 255, and an
\* invalid node line when one is above 255; it is not read as a branch.
C18_Level1Leaf ==
    (dec = "macrocell" /\ newres.kind = "Ok") =>
        \A i \in 1..Len(Pulled) :
            IsLevel1Shape(NodeLinesOf[i]) => Pulled[i] = Level1Item(NodeLinesOf[i], NodesUpTo(i))

\* The same for the lines whose 1 is followed by a blank.
C18_BlankAfterOne ==
    (dec = "macrocell" /\ newres.kind = "Ok") =>
        \A i \in 1..Len(Pulled) :
            (IsLevel1Shape(NodeLinesOf[i]) /\ NodeLinesOf[i][2] = Ord[" "]) =>
                Pulled[i] = Level1Item(NodeLinesOf[i], NodesUpTo(i))

\* 1 2 3 4 255 is a leaf, 1 2 3 4 256 is rejected.
C18_Leaf255 ==
    /\ dec = "macrocell" /\ input = <<Str(<<"1", " ", "2", " ", "3", " ", "4", " ", "2", "5", "5">>)>>
    /\ IsLevel1Shape(input[1])
    /\ out = <<OkNode(1, [type |-> "Level1", nw |-> 2, ne |-> 3, sw |-> 4, se |-> 255])>>

C18_Rejected256 ==
    /\ dec = "macrocell" /\ input = <<Str(<<"1", " ", "2", " ", "3", " ", "4", " ", "2", "5", "6">>)>>
    /\ IsLevel1Shape(input[1])
    /\ out = <<ErrItem("InvalidNodeLine", input[1])>>

\* With a tab after the 1 the line is read as a branch of level 1, whatever its numbers.
C18_TabReadAsBranch ==
    /\ dec = "macrocell"
    /\ input = << <<49, 9>> \o Str(<<"2", " ", "3", " ", "4", " ", "2", "5", "6">>) >>
    /\ IsLevel1Shape(input[1])
    /\ out = <<OkNode(1, [type |-> "Node", level |-> 1, nw |-> 2, ne |-> 3, sw |-> 4, se |-> 256])>>

\* A line that is no comment, no level-3 line (it does not start with one of the three
\* symbols) and no level-1 line (its first token is not 1).
IsBranchCandidate(l) ==
    /\ ~IsHash(l)
    /\ l = <<>> \/ l[1] \notin Level3Symbols
    /\ Tokens(l) = <<>> \/ Tokens(l)[1] # Str(<<"1">>)

\* The value of an integer token that a u64 holds, as the decoder reports it.
IdOf(t) == IF Len(StripZeros(t)) <= 9 THEN DigitsValue(StripZeros(t)) ELSE StripZeros(t)

\* Five integers from the first byte of the line on, the level a u8 and the children
\* values of usize.
IsBranch(l) ==
    /\ l # <<>> /\ ~IsRegexSpace(l[1])
    /\ Len(Tokens(l)) = 5 /\ \A k \in 1..5 : IsInteger(Tokens(l)[k])
    /\ IsState(Tokens(l)[1]) /\ \A k \in 2..5 : IsPeriod(Tokens(l)[k])

BranchOf(l, id) ==
    OkNode(id, [type |-> "Node", level |-> StateOf(Tokens(l)[1]),
                nw |-> IdOf(Tokens(l)[2]), ne |-> IdOf(Tokens(l)[3]),
                sw |-> IdOf(Tokens(l)[4]), se |-> IdOf(Tokens(l)[5])])

\* Fewer than five integers, or a token that is no integer.
IsNoBranch(l) ==
    \/ Cardinality({k \in 1..Len(Tokens(l)) : IsInteger(Tokens(l)[k])}) < 5
    \/ \E k \in 1..Len(Tokens(l)) : ~IsInteger(Tokens(l)[k])

\* C19: a line that is neither a comment, a level-3 line nor a level-1 line is decoded
\* as a branch from five whitespace-separated integers (level, nw, ne, sw, se), whatever
\* the children are (0, not yet declared, above the node's own id); a line with fewer
\* than five integers, or with a token that is no integer, is an invalid node line.
C19_BranchOrInvalid ==
    (dec = "macrocell" /\ newres.kind = "Ok") =>
        \A i \in 1..Len(Pulled) :
            IsBranchCandidate(NodeLinesOf[i]) =>
                /\ IsBranch(NodeLinesOf[i]) => Pulled[i] = BranchOf(NodeLinesOf[i], NodesUpTo(i))
                /\ IsNoBranch(NodeLinesOf[i]) => Pulled[i] = ErrItem("InvalidNodeLine", NodeLinesOf[i])

\* The line begins with five integers separated by whitespace, whatever follows the
\* last digit of the fifth.
BeginsWithFive(l) ==
    /\ l # <<>> /\ ~IsRegexSpace(l[1])
    /\ Len(Tokens(l)) >= 5 /\ \A k \in 1..4 : IsInteger(Tokens(l)[k])
    /\ IsAsciiDigit(Tokens(l)[5][1])

\* The same for the lines that do not begin with five integers: what follows the fifth
\* integer of a line is not looked at.
C19_FirstFiveIntegers ==
    (dec = "macrocell" /\ newres.kind = "Ok") =>
        \A i \in 1..Len(Pulled) :
            IsBranchCandidate(NodeLinesOf[i]) =>
                /\ IsBranch(NodeLinesOf[i]) => Pulled[i] = BranchOf(NodeLinesOf[i], NodesUpTo(i))
                /\ (IsNoBranch(NodeLinesOf[i]) /\ ~BeginsWithFive(NodeLinesOf[i])) =>
                      Pulled[i] = ErrItem("InvalidNodeLine", NodeLinesOf[i])

\* Five integers followed by a token that is no integer are decoded as a branch.
C19_TextAfterBranch ==
    /\ dec = "macrocell"
    /\ input = <<Str(<<"4", " ", "0", " ", "1", " ", "2", " ", "3", " ", "x">>)>>
    /\ IsBranchCandidate(input[1]) /\ IsNoBranch(input[1])
    /\ out = <<OkNode(1, [type |-> "Node", level |-> 4, nw |-> 0, ne |-> 1, sw |-> 2, se |-> 3])>>

\* 10 20 30 40 50 is a branch, 10 20 30 40 is rejected.
C19_TestLines ==
    /\ dec = "macrocell" /\ Len(input) = 1 /\ Len(out) = 1 /\ IsBranchCandidate(input[1])
    /\ \/ /\ input[1] = Str(<<"1", "0", " ", "2", "0", " ", "3", "0", " ", "4", "0", " ", "5", "0">>)
          /\ out[1] = OkNode(1, [type |-> "Node", level |-> 10, nw |-> 20, ne |-> 30, sw |-> 40, se |-> 50])
       \/ /\ input[1] = Str(<<"1", "0", " ", "2", "0", " ", "3", "0", " ", "4", "0">>)
          /\ out[1] = ErrItem("InvalidNodeLine", input[1])

\* A branch whose children are above its own id, after one leaf.
C19_ForwardChildren ==
    /\ dec = "macrocell" /\ Len(input) = 3 /\ input[2] = Str(<<"3", " ", "9", " ", "9", " ", "1", " ", "0">>)
    /\ Len(out) = 2
    /\ out[2] = OkNode(2, [type |-> "Node", level |-> 3, nw |-> 9, ne |-> 9, sw |-> 1, se |-> 0])

\* A string without the whitespace at its two ends.
Trim(t) ==
    LET ns == {i \in 1..Len(t) : ~IsRegexSpace(t[i])}
    IN  IF ns = {} THEN <<>>
        ELSE SubSeq(t, CHOOSE i \in ns : \A j \in ns : i <= j, CHOOSE i \in ns : \A j \in ns : i >= j)

IsRuleLine(l) == Len(l) >= 2 /\ SubSeq(l, 1, 2) = Str(<<"#", "R">>)
IsGenLine(l) == Len(l) >= 2 /\ SubSeq(l, 1, 2) = Str(<<"#", "G">>)

\* What a rule line and a generation line hold after their two bytes, trimmed.
FieldOf(l) == Trim(SubSeq(l, 3, Len(l)))

\* A header line outside its grammar: a rule line without rule, a generation line that
\* holds anything else than one number (of the generation's type, u64).
IsBadHeader(l) ==
    \/ IsRuleLine(l) /\ FieldOf(l) = <<>>
    \/ IsGenLine(l) /\ ~IsPeriod(FieldOf(l))

\* The positions of the header lines, which come before the first body line.
HeaderLines == 1..(BodyStart - 1)
BadHeaders == {i \in HeaderLines : IsBadHeader(input[i])}
RuleLines == {i \in HeaderLines : IsRuleLine(input[i])}
GenLines == {i \in HeaderLines : IsGenLine(input[i])}

Least(S) == CHOOSE i \in S : \A j \in S : i <= j
Greatest(S) == CHOOSE i \in S : \A j \in S : i >= j

\* The rule and the generation of the last line of each kind.
LastRule == IF RuleLines = {} THEN None ELSE Some(FieldOf(input[Greatest(RuleLines)]))
LastGen == IF GenLines = {} THEN None ELSE Some(IdOf(FieldOf(input[Greatest(GenLines)])))

\* C20: Macrocell::new reads the leading lines up to and with the first line that starts
\* neither with [M2] nor with '#'.  A #R line sets the rule (trimmed), a #G line the
\* generation, the last line of a kind wins, other '#' lines and [M2] lines are skipped.
\* A #R or #G line outside its grammar makes the construction fail with
\* InvalidHeaderLine carrying this line, and no node is produced.
C20_HeaderLines ==
    dec = "macrocell" =>
        IF BadHeaders # {}
        THEN /\ newres = [kind |-> "Err", error |-> "InvalidHeaderLine", arg |-> input[Least(BadHeaders)]]
             /\ macrocell = None /\ out = <<>>
        ELSE /\ newres.kind = "Ok"
             /\ IsSome(macrocell) =>
                   /\ Unwrap(macrocell).rule = LastRule
                   /\ Unwrap(macrocell).gen = LastGen
             /\ out = <<>> =>
                   /\ IsSome(macrocell)
                   /\ Unwrap(macrocell).current_line =
                         (IF BodyStart <= Len(input) THEN Some(input[BodyStart]) ELSE None)
                   /\ Unwrap(macrocell).lines = SubSeq(input, BodyStart + 1, Len(input))
                   /\ Unwrap(macrocell).id = 1

\* Two rule lines, the second with whitespace around the rule, then a leaf: the rule is
\* the one of the second line, and the leaf is the first node.
C20_Witness ==
    /\ dec = "macrocell"
    /\ input = << Str(<<"#", "R", " ", "B", "3", "/", "S", "2", "3">>), Str(<<"#", "R", " ", " ", "B", "3", " ", " ">>),
                  Str(<<"*", "*", "$">>) >>
    /\ newres.kind = "Ok" /\ Unwrap(macrocell).rule = Some(Str(<<"B", "3">>))
    /\ Len(out) = 1 /\ out[1].kind = "Ok" /\ out[1].id = 1

\* A generation line, then a generation line outside the grammar, then a leaf.
C20_BadGeneration ==
    /\ dec = "macrocell"
    /\ input = << Str(<<"#", "G", " ", "1", "2">>), Str(<<"#", "G", " ", "x">>), Str(<<"*", "*", "$">>) >>
    /\ newres = [kind |-> "Err", error |-> "InvalidHeaderLine", arg |-> Str(<<"#", "G", " ", "x">>)]
    /\ macrocell = None /\ out = <<>>

\* A generation and the [M2] line.
C20_Generation ==
    /\ dec = "macrocell"
    /\ input = << Str(<<"[", "M", "2", "]", " ", "(", "g", "o", "l", "l", "y", " ", "3", ".", "4", ")">>),
                  Str(<<"#", "G", "1", "2", " ">>) >>
    /\ newres.kind = "Ok" /\ Unwrap(macrocell).gen = Some(12) /\ Unwrap(macrocell).rule = None

---------------------------------------------------------------------------
(* C21: the range of the states                                            *)

\* The states of the cells among items.
StateSet(items) == {items[i].state : i \in {j \in 1..Len(items) : items[j].kind = "Ok"}}

\* The two-byte state codes: a prefix p..y and a letter A..X.
StateCodes == (Ord["p"]..Ord["y"]) \X (Ord["A"]..Ord["X"])

\* No line of the input has 19 digits in a row: the run counts stay far inside i64,
\* and a pull can only abort in the 8-bit computation of a state.
NarrowCounts ==
    \A i \in 1..Len(input) :
        IF IsIoError(input[i]) THEN TRUE
        ELSE \A j \in 1..Len(input[i]) : SkipDigits(input[i], j) - j < 19

\* C21: every cell pulled from Rle has a state in 1..255, and no pull aborts in the
\* 8-bit computation of a state.
C21_StatesInRange ==
    (dec = "rle" /\ NarrowCounts) => StateSet(out) \subseteq 1..255 /\ ~Aborted

\* The codes whose state does not fit 8 bits are yP..yX, and only they give a cell of
\* state 0..8 or an aborted pull; all other tags give a state in 1..255.
C21_OnlyYPToYXOverflow ==
    dec = "rle" =>
        /\ {c \in StateCodes : RleState(Some(c[1]), c[2]) > 255} = {Ord["y"]} \X (Ord["P"]..Ord["X"])
        /\ \A c \in StateCodes : RleState(Some(c[1]), c[2]) \in 25..264
        /\ \A l \in Ord["A"]..Ord["X"] : RleState(None, l) \in 1..24
        /\ (NarrowCounts /\ IsSome(rle) /\ RleNext(Unwrap(rle)).overflow)
               => /\ RleNext(Unwrap(rle)).item.kind = "Ok"
                  /\ RleNext(Unwrap(rle)).item.state \in 0..8
        /\ StateSet(out) \subseteq 0..255

\* The body yP in a build without overflow checks: a cell of state 0.
C21_StateZero == dec = "rle" /\ NarrowCounts /\ 0 \in StateSet(out)

\* The body yP in a build with overflow checks: the pull aborts.
C21_StateAborts == dec = "rle" /\ NarrowCounts /\ Aborted /\ StateSet(out) \subseteq 1..255

---------------------------------------------------------------------------
(* C22: the last metadata line of each kind                                *)

\* The positions of the lines Rle::new reads before the body: the lines in front of
\* the first line that starts neither with '#' nor like a header.
RleIsLeading(line) == IsHash(line) \/ IsHeaderLine(line)
RleBodyStart ==
    Least({i \in 1..(Len(input) + 1) : IF i = Len(input) + 1 THEN TRUE ELSE ~RleIsLeading(input[i])})
RleLeading == 1..(RleBodyStart - 1)
RleHeaderAt == {i \in RleLeading : IsHeaderLine(input[i])}
RleCxrleAt == {i \in RleLeading : IsCxrleLine(input[i])}

\* The data of the last line of each kind, and the origin that the last #CXRLE line gives.
LastHeaderData == IF RleHeaderAt = {} THEN None ELSE parse_header(input[Greatest(RleHeaderAt)])
LastCxrleData == IF RleCxrleAt = {} THEN None ELSE parse_cxrle(input[Greatest(RleCxrleAt)])
LastOrigin ==
    IF IsSome(LastCxrleData) /\ IsSome(Unwrap(LastCxrleData).pos)
    THEN Unwrap(Unwrap(LastCxrleData).pos)
    ELSE <<0, 0>>

\* The input is the body bo$2o! behind metadata lines.
MetaBodyRun == IF RleBodyStart = Len(input) THEN input[Len(input)] = RleMetaBody ELSE FALSE

\* A decoder that Rle::new built from the input of the run.
RleBuilt == dec = "rle" /\ docs = <<>> /\ newres.kind = "Ok" /\ IsSome(rle)

\* C22: header_data() and cxrle_data() are the data of the last header line and of the
\* last #CXRLE line before the body, and the cells start from the origin of that last
\* #CXRLE line, (0, 0) if it has no Pos.
C22_LastLineWins ==
    RleBuilt =>
        /\ Unwrap(rle).header_data = LastHeaderData
        /\ Unwrap(rle).cxrle_data = LastCxrleData
        /\ (MetaBodyRun /\ Len(out) >= 1)
               => out[1] = OkCell(<<LastOrigin[1] + 1, LastOrigin[2]>>, 1)
        /\ (MetaBodyRun /\ Len(out) >= 2)
               => out[2] = OkCell(<<LastOrigin[1], LastOrigin[2] + 1>>, 1)

\* A #CXRLE line without Pos after one with Pos=-1,-1: no origin is left, and the first
\* cell of bo$2o! is at (1, 0).
C22_Witness ==
    /\ RleBuilt
    /\ input = <<GliderCxrle, CxrleBare, RleMetaBody>>
    /\ Unwrap(rle).cxrle_data = Some(DefaultCxrleData)
    /\ Len(out) >= 1 /\ out[1] = OkCell(<<1, 0>>, 1)

\* Two header lines: the data are those of the second.
C22_TwoHeaders ==
    /\ RleBuilt
    /\ input = <<GliderHeader, Str(<<"x", "=", "1", ",", "y", "=", "2">>), RleMetaBody>>
    /\ Unwrap(rle).header_data = Some([x |-> 1, y |-> 2, rule |-> None])
    /\ Len(out) >= 1

---------------------------------------------------------------------------
(* C23: header lines                                                       *)

\* The header grammar  x = <digits>, y = <digits>[, rule = <text>]  as an automaton
\* over the bytes of a line: blanks may stand around '=' and after ','; the rule is
\* the text from its first to its last non-blank byte.  While reading, x, y and rule
\* collect the bytes of the fields; blanks inside the rule wait in gap until a
\* non-blank byte follows.
HeaderStart == [q |-> 0, x |-> <<>>, y |-> <<>>, rule |-> <<>>, gap |-> <<>>]
HeaderFail(a) == [a EXCEPT !.q = -1]
HeaderRead(a, c) ==
    LET sp == IsRegexSpace(c)
        dg == IsAsciiDigit(c)
        to(q) == [a EXCEPT !.q = q]
    IN  CASE a.q = 0  -> IF c = Ord["x"] THEN to(1) ELSE HeaderFail(a)
          [] a.q = 1  -> IF sp THEN a ELSE IF c = Ord["="] THEN to(2) ELSE HeaderFail(a)
          [] a.q = 2  -> IF sp THEN a ELSE IF dg THEN [a EXCEPT !.q = 3, !.x = <<c>>] ELSE HeaderFail(a)
          [] a.q = 3  -> IF dg THEN [a EXCEPT !.x = Append(@, c)]
                         ELSE IF c = Ord[","] THEN to(4) ELSE HeaderFail(a)
          [] a.q = 4  -> IF sp THEN a ELSE IF c = Ord["y"] THEN to(5) ELSE HeaderFail(a)
          [] a.q = 5  -> IF sp THEN a ELSE IF c = Ord["="] THEN to(6) ELSE HeaderFail(a)
          [] a.q = 6  -> IF sp THEN a ELSE IF dg THEN [a EXCEPT !.q = 7, !.y = <<c>>] ELSE HeaderFail(a)
          [] a.q = 7  -> IF dg THEN [a EXCEPT !.y = Append(@, c)]
                         ELSE IF c = Ord[","] THEN to(8) ELSE HeaderFail(a)
          [] a.q = 8  -> IF sp THEN a ELSE IF c = Ord["r"] THEN to(9) ELSE HeaderFail(a)
          [] a.q = 9  -> IF c = Ord["u"] THEN to(10) ELSE HeaderFail(a)
          [] a.q = 10 -> IF c = Ord["l"] THEN to(11) ELSE HeaderFail(a)
          [] a.q = 11 -> IF c = Ord["e"] THEN to(12) ELSE HeaderFail(a)
          [] a.q = 12 -> IF sp THEN a ELSE IF c = Ord["="] THEN to(13) ELSE HeaderFail(a)
          [] a.q = 13 -> IF sp THEN a ELSE [a EXCEPT !.q = 14, !.rule = <<c>>]
          [] a.q = 14 -> IF sp THEN [a EXCEPT !.gap = Append(@, c)]
                         ELSE [a EXCEPT !.rule = @ \o a.gap \o <<c>>, !.gap = <<>>]
          [] OTHER    -> a

RECURSIVE HeaderRun(_, _)
HeaderRun(l, a) == IF l = <<>> THEN a ELSE HeaderRun(Tail(l), HeaderRead(a, Head(l)))

\* Whether a line is a header of the grammar, and the fields it then has.
IsHeaderOfGrammar(l) == HeaderRun(l, HeaderStart).q \in {7, 14}
HeaderFields(l) ==
    LET a == HeaderRun(l, HeaderStart)
    IN  [x |-> U64Value(a.x), y |-> U64Value(a.y), rule |-> IF a.q = 14 THEN Some(a.rule) ELSE None]

\* Whether Rle::new takes a leading line without an error.
RleLineFine(line) ==
    /\ ~IsIoError(line)
    /\ IsCxrleLine(line) => IsSome(parse_cxrle(line))
    /\ (~IsCxrleLine(line) /\ IsHeaderLine(line)) => IsSome(parse_header(line))

\* The leading lines in front of which every line is taken without an error.
RleReached == {i \in RleLeading : \A j \in 1..(i - 1) : RleLineFine(input[j])}

\* C23: a leading line that starts with "x " or "x=" and is no header of the grammar
\* makes Rle::new fail with InvalidHeaderLine of that line, and no decoder exists that
\* could give a cell; a header of the grammar gives its fields, the rule without the
\* blanks at its end, absent when there is no rule field.
C23_HeaderLine ==
    (dec = "rle" /\ docs = <<>>) =>
        /\ \A i \in RleReached :
               (IsHeaderLine(input[i]) /\ ~IsHeaderOfGrammar(input[i]))
                   => /\ newres = [kind |-> "Err", error |-> "InvalidHeaderLine", arg |-> input[i]]
                      /\ rle = None /\ out = <<>>
        /\ \A i \in RleReached :
               (IsHeaderLine(input[i]) /\ IsHeaderOfGrammar(input[i])
                    /\ FitsU64(HeaderRun(input[i], HeaderStart).x)
                    /\ FitsU64(HeaderRun(input[i], HeaderStart).y))
                   => parse_header(input[i]) = Some(HeaderFields(input[i]))
        /\ parse_header(Str(<<"x", "x", "x">>)) = None
        /\ parse_header(HeaderNegative) = None
        /\ parse_header(GliderHeader) = Some([x |-> 3, y |-> 3, rule |-> Some(Str(<<"B", "3", "/", "S", "2", "3">>))])
        /\ parse_header(HeaderNoRule) = Some([x |-> 3, y |-> 3, rule |-> None])
        /\ parse_header(HeaderTrailing)
               = Some([x |-> 3, y |-> 3, rule |-> Some(SubSeq(HeaderTrailing, 22, Len(HeaderTrailing) - 2))])

\* The line x = 3, y = -3 of the test is rejected when the decoder is built.
C23_Witness ==
    /\ dec = "rle" /\ docs = <<>>
    /\ input = <<GliderComment, HeaderNegative, RleMetaBody>>
    /\ newres = [kind |-> "Err", error |-> "InvalidHeaderLine", arg |-> HeaderNegative]
    /\ rle = None /\ out = <<>>

\* A header with blanks after its rule is taken, the rule without them.
C23_RuleTrimmed ==
    /\ RleBuilt
    /\ input = <<HeaderTrailing, RleMetaBody>>
    /\ Unwrap(Unwrap(rle).header_data).rule = Some(SubSeq(HeaderTrailing, 22, Len(HeaderTrailing) - 2))
    /\ Len(out) >= 1

\* The other lines that are no header of the grammar: no y, a size that is no number,
\* a blank at the end of a line without a rule, an empty rule.
C23_Rejected ==
    /\ dec = "rle" /\ docs = <<>> /\ Len(input) = 2
    /\ input[1] \in { Str(<<"x", " ", "=", " ", "3">>),
                      Str(<<"x", " ", "=", " ", "a", ",", " ", "y", " ", "=", " ", "3">>) }
    /\ newres = [kind |-> "Err", error |-> "InvalidHeaderLine", arg |-> input[1]]

---------------------------------------------------------------------------
(* C24, C25: #CXRLE lines                                                  *)

\* The first position from i on that holds no blank, and that holds no digit
\* (Len + 1 when there is none).
NextNonSpace(l, i) ==
    Least({j \in i..(Len(l) + 1) : IF j = Len(l) + 1 THEN TRUE ELSE ~IsRegexSpace(l[j])})
NextNonDigit(l, i) ==
    Least({j \in i..(Len(l) + 1) : IF j = Len(l) + 1 THEN TRUE ELSE ~IsAsciiDigit(l[j])})

\* Whether a byte stands at position i.
ByteAt(l, i, c) == IF i \in 1..Len(l) THEN l[i] = Ord[c] ELSE FALSE

\* The number that starts at position i -- an optional '-' when signed, then digits,
\* as many as follow -- and the position behind it; no digit: no number.
NumberEnd(l, i, signed) == NextNonDigit(l, IF signed /\ ByteAt(l, i, "-") THEN i + 1 ELSE i)
HasNumber(l, i, signed) ==
    NumberEnd(l, i, signed) > (IF signed /\ ByteAt(l, i, "-") THEN i + 1 ELSE i)
NumberAt(l, i, signed) == SubSeq(l, i, NumberEnd(l, i, signed) - 1)

\* The position of the value of the field whose name stands at position i: behind
\* the name, blanks, '=' and blanks (0 when there is no '=').
ValueStart(l, i) ==
    IF ByteAt(l, NextNonSpace(l, i + 3), "=") THEN NextNonSpace(l, NextNonSpace(l, i + 3) + 1) ELSE 0

\* A Gen field at position i: Gen = <digits>.
IsGenField(l, i) ==
    /\ LitAt(l, i, Str(<<"G", "e", "n">>))
    /\ ValueStart(l, i) > 0
    /\ HasNumber(l, ValueStart(l, i), FALSE)
GenDigits(l, i) == NumberAt(l, ValueStart(l, i), FALSE)

\* A Pos field at position i: Pos = <integer>,<integer>, blanks allowed after ','.
PosYStart(l, i) == NextNonSpace(l, NumberEnd(l, ValueStart(l, i), TRUE) + 1)
IsPosField(l, i) ==
    /\ LitAt(l, i, Str(<<"P", "o", "s">>))
    /\ ValueStart(l, i) > 0
    /\ HasNumber(l, ValueStart(l, i), TRUE)
    /\ ByteAt(l, NumberEnd(l, ValueStart(l, i), TRUE), ",")
    /\ HasNumber(l, PosYStart(l, i), TRUE)
PosXDigits(l, i) == NumberAt(l, ValueStart(l, i), TRUE)
PosYDigits(l, i) == NumberAt(l, PosYStart(l, i), TRUE)

GenFields(l) == {i \in 1..Len(l) : IsGenField(l, i)}
PosFields(l) == {i \in 1..Len(l) : IsPosField(l, i)}

\* A field whose number no u64 (Gen) or i64 (Pos) holds.
HasUnfitNumber(l) ==
    \/ \E i \in GenFields(l) : ~FitsU64(GenDigits(l, i))
    \/ \E i \in PosFields(l) : ~FitsI64(PosXDigits(l, i)) \/ ~FitsI64(PosYDigits(l, i))

\* The name of a field that is not followed by '=' and well-formed numbers.
HasBrokenField(l) ==
    \/ \E i \in 1..Len(l) : LitAt(l, i, Str(<<"G", "e", "n">>)) /\ ~IsGenField(l, i)
    \/ \E i \in 1..Len(l) : LitAt(l, i, Str(<<"P", "o", "s">>)) /\ ~IsPosField(l, i)

\* The result of Rle::new when the #CXRLE line is refused.
CxrleRefused(line) ==
    /\ newres = [kind |-> "Err", error |-> "InvalidCXRLELine", arg |-> line]
    /\ rle = None /\ out = <<>>

\* The #CXRLE lines that Rle::new reaches.
CxrleReached == {i \in RleReached : IsCxrleLine(input[i])}

C24_UnfitPos ==
    /\ dec = "rle" /\ docs = <<>> /\ Len(input) = 2
    /\ input[1] = Str(<<"#", "C", "X", "R", "L", "E", " ", "P", "o", "s", "=", "0", ",">>) \o I64MinDigits
    /\ CxrleRefused(input[1])

\* The line #CXRLE Pos=x is taken: the decoder is built without an origin and gives cells.
C24_BrokenFieldTaken ==
    /\ RleBuilt
    /\ input = <<Str(<<"#", "C", "X", "R", "L", "E", " ", "P", "o", "s", "=", "x">>), RleMetaBody>>
    /\ Unwrap(rle).cxrle_data = Some(DefaultCxrleData)
    /\ Len(out) >= 1 /\ out[1] = OkCell(<<1, 0>>, 1)

\* The data of a #CXRLE line: of each field the last one in the line.
LastPos(l) ==
    IF PosFields(l) = {} THEN None
    ELSE Some(<<SignedValue(PosXDigits(l, Greatest(PosFields(l)))),
                SignedValue(PosYDigits(l, Greatest(PosFields(l))))>>)
LastGen64(l) ==
    IF GenFields(l) = {} THEN None ELSE Some(U64Value(GenDigits(l, Greatest(GenFields(l)))))

\* The decimal digits of 3480106827776, the generation of the lines of the test.
TestGen == Str(<<"3", "4", "8", "0", "1", "0", "6", "8", "2", "7", "7", "7", "6">>)

C25_EitherOrder ==
    /\ RleBuilt
    /\ input = <<CxrleGenPos, RleMetaBody>>
    /\ Greatest(GenFields(input[1])) < Greatest(PosFields(input[1]))
    /\ Len(out) >= 1 /\ out[1] = OkCell(<<1, -1377>>, 1)

---------------------------------------------------------------------------
(* C26: the header is advisory                                             *)

\* The input without the header lines in front of its body.
RECURSIVE WithoutHeaders(_)
WithoutHeaders(ls) ==
    IF ls = <<>> THEN <<>>
    ELSE IF IsHeaderLine(Head(ls)) THEN WithoutHeaders(Tail(ls))
    ELSE IF IsHash(Head(ls)) THEN <<Head(ls)>> \o WithoutHeaders(Tail(ls))
    ELSE ls

\* The items of the pulls that returned.
Returned(items) == IF Aborted THEN SubSeq(items, 1, Len(items) - 1) ELSE items

\* C26: the items pulled are those that the same input without its header lines
\* gives, whatever width, height and rule the header lines declare; a cell outside
\* the declared box is given like any other.
C26_HeaderIsAdvisory ==
    RleBuilt =>
        /\ RleNew(WithoutHeaders(input)).kind = "Ok"
        /\ Returned(out) = RleItems(RleNew(WithoutHeaders(input)).value, Len(Returned(out)))
        /\ (MetaBodyRun /\ NoneCount(out) > 0) =>
               Observed(out) = << OkCell(<<LastOrigin[1] + 1, LastOrigin[2]>>, 1),
                                  OkCell(<<LastOrigin[1], LastOrigin[2] + 1>>, 1),
                                  OkCell(<<LastOrigin[1] + 1, LastOrigin[2] + 1>>, 1) >>

\* Under the header x=1,y=2 the body bo$2o! gives its three cells, two of them in
\* column 1, outside the declared width.
C26_Witness ==
    /\ RleBuilt
    /\ input = <<Str(<<"x", "=", "1", ",", "y", "=", "2">>), RleMetaBody>>
    /\ Unwrap(rle).header_data = Some([x |-> 1, y |-> 2, rule |-> None])
    /\ out = <<OkCell(<<1, 0>>, 1), OkCell(<<0, 1>>, 1), OkCell(<<1, 1>>, 1), NoneItem>>

\* Two different header lines before the body, pulled to the end.
C26_TwoHeaders ==
    /\ RleBuilt
    /\ RleHeaderAt = {1, 2} /\ input[1] # input[2]
    /\ MetaBodyRun /\ NoneCount(out) > 0

---------------------------------------------------------------------------
(* C28: raster order                                                       *)

\* The positions of the cells among items, in the order of the pulls.
PositionsOf(items) ==
    LET cells == SelectSeq(items, LAMBDA it : it.kind = "Ok")
    IN  [i \in 1..Len(cells) |-> cells[i].position]

\* p comes before q in raster order: an earlier row, or the same row and an earlier column.
RasterBefore(p, q) == p[2] < q[2] \/ (p[2] = q[2] /\ p[1] < q[1])

InRasterOrder(ps) == \A i \in 1..(Len(ps) - 1) : RasterBefore(ps[i], ps[i + 1])

\* C28: the cells pulled from Rle and from Plaintext come in raster order: each one
\* after the one pulled before it.
C28_RasterOrder ==
    dec \in {"rle", "plaintext"} => InRasterOrder(PositionsOf(out))

\* While the run counts stay inside i64 the cells come in raster order.
C28_RasterOrderOfNarrowCounts ==
    (dec \in {"rle", "plaintext"} /\ NarrowCounts) => InRasterOrder(PositionsOf(out))

\* The body o18446744073709551614bo in a build without overflow checks: the run count
\* is -2 and the second cell lies left of the first.
C28_CellToTheLeft ==
    /\ dec = "rle"
    /\ input = <<Str(<<"o">>) \o WideMinusTwo \o Str(<<"b", "o">>)>>
    /\ Len(out) = 2
    /\ out = <<OkCell(<<0, 0>>, 1), OkCell(<<-1, 0>>, 1)>>

\* The same body in a build with overflow checks: the second pull aborts.
C28_SecondPullAborts ==
    /\ dec = "rle"
    /\ input = <<Str(<<"o">>) \o WideMinusTwo \o Str(<<"b", "o">>)>>
    /\ out = <<OkCell(<<0, 0>>, 1), PanicItem>>

\* 18446744073709551615$ takes the cursor one row up.
C28_CellAbove ==
    /\ dec = "rle"
    /\ input = <<Str(<<"o">>) \o U64MaxDigits \o Str(<<"$", "o">>)>>
    /\ out = <<OkCell(<<0, 0>>, 1), OkCell(<<0, -1>>, 1)>>

---------------------------------------------------------------------------
(* C27: decoding is deterministic                                          *)

\* Two sequences of items agree as far as both go.  An aborted pull is left out: it
\* tells the build apart, not the input.
Agree(a, b) ==
    \A i \in 1..(IF Len(a) < Len(b) THEN Len(a) ELSE Len(b)) :
        (a[i] # PanicItem /\ b[i] # PanicItem) => a[i] = b[i]

\* A second decoder over the input is being pulled.
SecondRun == Len(docs) = 1 /\ dec \in {"rle", "plaintext", "wechsler", "macrocell"}

C27_SameFailure ==
    /\ SecondRun
    /\ newres.kind = "Err" /\ newres = docs[1].newres

---------------------------------------------------------------------------
(* C29: failures of the line source                                        *)

LineDecoders == {"rle", "plaintext", "macrocell"}

\* The positions of the lines that the line source fails to read.
FailedLines == {i \in 1..Len(input) : IsIoError(input[i])}

\* A line that the constructor of the decoder reads, takes without an error, and after
\* which it reads on.
PassedByNew(line) ==
    IF IsIoError(line) THEN FALSE
    ELSE IF dec = "rle" THEN RleIsLeading(line) /\ RleLineFine(line)
    ELSE IF dec = "plaintext" THEN IsPlaintextComment(line)
    ELSE (IsHash(line) \/ IsM2(line)) /\ ~IsBadHeader(line)

\* The first failure is a line that the constructor reads.
FailsInNew ==
    IF FailedLines = {} THEN FALSE
    ELSE \A j \in 1..(Least(FailedLines) - 1) : PassedByNew(input[j])

\* The error for a failure of the line source, as the result of new and as an item.
IoErrorResult == [kind |-> "Err", error |-> "IoError", arg |-> <<>>]
IoErrors(items) == {i \in 1..Len(items) : items[i] = ErrItem("IoError", <<>>)}

\* The number of lines that the decoder has taken from the line source.
LinesTaken == Len(input) - Len(Unwrap(Decoder).lines)

\* C29: a failure of the line source on a line that the constructor reads makes the
\* constructor return Err(IoError), and no decoder exists; a failure on a later line
\* makes the pull that takes the line return Err(IoError): as many such items were
\* pulled as failed lines were taken, and before the end of the sequence the last item
\* pulled is one exactly when the last line taken is a failed one.
C29_IoErrorSurfaces ==
    (dec \in LineDecoders /\ docs = <<>>) =>
        /\ FailsInNew => newres = IoErrorResult /\ Decoder = None /\ out = <<>>
        /\ newres = IoErrorResult => FailsInNew
        /\ IsSome(Decoder) =>
               /\ Cardinality(IoErrors(out)) = Cardinality(FailedLines \cap 1..LinesTaken)
               /\ (out # <<>> /\ NoneCount(out) = 0) =>
                      (Last(out) = ErrItem("IoError", <<>>) <=> LinesTaken \in FailedLines)

\* A failure behind a body line: the pull that asks for the next line returns the error,
\* and the pulls after it go on with the lines behind.
C29_Witness ==
    /\ dec = "rle" /\ docs = <<>>
    /\ input = <<Str(<<"o", "$">>), IoErrorItem, Str(<<"2", "o", "!">>)>>
    /\ out = <<OkCell(<<0, 0>>, 1), ErrItem("IoError", <<>>), OkCell(<<0, 1>>, 1)>>

\* A failure behind a comment line: Rle::new, Plaintext::new and Macrocell::new fail.
C29_NewFails ==
    /\ dec \in LineDecoders /\ docs = <<>>
    /\ Len(input) = 3 /\ input[2] = IoErrorItem /\ FailsInNew
    /\ newres = IoErrorResult

\* Plaintext and Macrocell return the error from a pull.
C29_PlaintextPull ==
    /\ dec = "plaintext"
    /\ input = <<Str(<<".", "O">>), IoErrorItem, Str(<<".", "O">>)>>
    /\ out = <<OkCoord(<<1, 0>>), ErrItem("IoError", <<>>), OkCoord(<<1, 1>>)>>
C29_MacrocellPull ==
    /\ dec = "macrocell"
    /\ Len(input) = 3 /\ input[2] = IoErrorItem
    /\ Len(out) = 3 /\ out[1].kind = "Ok" /\ out[2] = ErrItem("IoError", <<>>) /\ out[3].kind = "Ok"

---------------------------------------------------------------------------
(* C30: the variant with unknown cells                                     *)

\* The expansion of two-state tokens and unknown runs, from the cursor (x, y), with
\* start column x0: dead runs are cells of state 0, unknown runs are gaps.
RECURSIVE UnknownExpansion(_, _, _, _)
UnknownExpansion(ts, x, y, x0) ==
    IF ts = <<>> THEN <<>>
    ELSE LET t == Head(ts)
             n == Count(t)
         IN  IF t.tag = Ord["!"] THEN <<>>
             ELSE IF t.tag = Ord["?"] THEN UnknownExpansion(Tail(ts), x + n, y, x0)
             ELSE IF t.tag = Ord["b"] \/ t.tag = Ord["."]
             THEN Run(x, y, n, 0) \o UnknownExpansion(Tail(ts), x + n, y, x0)
             ELSE IF t.tag = Ord["o"] THEN Run(x, y, n, 1) \o UnknownExpansion(Tail(ts), x + n, y, x0)
             ELSE UnknownExpansion(Tail(ts), x0, y + n, x0)

\* A decoder with unknown cells over a body of counts and the tags ?, b, ., o, $, !.
UnknownRun ==
    /\ dec = "rle_with_unknown"
    /\ BodyIsToks
    /\ \A i \in 1..Len(toks) : toks[i].tag \in TwoStateTags \cup {Ord["?"]}

\* A decoder with unknown cells over a body without dead and unknown tags.
OnlyAliveTags ==
    /\ dec = "rle_with_unknown"
    /\ \A i \in 1..Len(input) :
           RleSkipsLine(input[i])
           \/ \A k \in 1..Len(input[i]) : input[i][k] \notin {Ord["?"], Ord["b"], Ord["."]}

GliderUnknownCells ==
    << OkCell(<<0, 0>>, 0), OkCell(<<1, 0>>, 1), OkCell(<<2, 0>>, 0),
       OkCell(<<0, 1>>, 0), OkCell(<<1, 1>>, 0), OkCell(<<2, 1>>, 1),
       OkCell(<<0, 2>>, 1), OkCell(<<1, 2>>, 1), OkCell(<<2, 2>>, 1) >>

\* The first run of a body on one line: the digits of its count, its tag, and the byte
\* behind the tag.
OneBodyLine ==
    IF Len(input) = 1 /\ ~IsIoError(input[1]) THEN ~RleSkipsLine(input[1]) ELSE FALSE
FirstCount == DigitRun(input[1])
FirstTagIs(c) == ByteAt(input[1], Len(FirstCount) + 1, c)
SecondTagIs(c) == ByteAt(input[1], Len(FirstCount) + 2, c)

\* The count written as ds is at least k (k is small; no digit is a count of 1).
CountAtLeast(ds, k) ==
    IF ds = <<>> THEN k <= 1
    ELSE Len(StripZeros(ds)) > 9 \/ DigitsValue(StripZeros(ds)) >= k

\* The item is the cell of state st in row 0, in column x when the count ds is x, and
\* in a column right of 0 in any case.
CellAtCount(item, ds, st) ==
    IF item.kind # "Ok" THEN FALSE
    ELSE /\ item.state = st /\ item.position[2] = 0 /\ item.position[1] >= 1
         /\ Len(StripZeros(ds)) <= 9 =>
                item.position[1] = (IF ds = <<>> THEN 1 ELSE DigitsValue(StripZeros(ds)))

\* C30, for the first run of a body and a count of any length: a run of n dead tags is
\* n cells of state 0 from column 0 on, one column apart (as many of them as were
\* pulled), and a run of n '?' in front of an o puts the cell of the o in column n.
C30_RunsOfAnyCount ==
    (dec = "rle_with_unknown" /\ OneBodyLine /\ newres.kind = "Ok") =>
        /\ (FirstTagIs("b") \/ FirstTagIs(".")) =>
               \A i \in 1..Len(out) :
                   CountAtLeast(FirstCount, i) => out[i] = OkCell(<<i - 1, 0>>, 0)
        /\ (FirstTagIs("?") /\ SecondTagIs("o") /\ out # <<>>) =>
               CellAtCount(out[1], FirstCount, 1)

\* 18446744073709551618b in a build without overflow checks: two dead cells, then the end.
C30_TwoCellsOfWideRun ==
    /\ dec = "rle_with_unknown"
    /\ input = <<WidePlusTwo \o Str(<<"b">>)>>
    /\ out = <<OkCell(<<0, 0>>, 0), OkCell(<<1, 0>>, 0), NoneItem>>

\* The same body in a build with overflow checks: the first pull aborts.
C30_FirstPullAborts ==
    /\ dec = "rle_with_unknown"
    /\ input = <<WidePlusTwo \o Str(<<"b">>)>>
    /\ out = <<PanicItem>>

\* 18446744073709551614?o in a build without overflow checks: the cell lies left of column 0.
C30_GapToTheLeft ==
    /\ dec = "rle_with_unknown"
    /\ input = <<WideMinusTwo \o Str(<<"?", "o">>)>>
    /\ out = <<OkCell(<<-2, 0>>, 1)>>

\* C30, while the run counts stay inside i64: RleWithUnknown gives the cells of the
\* expansion in which a run of n '?' is a gap of n columns and a run of n dead tags is n
\* cells of state 0, one column apart; on a body without dead and unknown tags it gives,
\* pull by pull, the items of Rle; the glider of the test under Pos=-1,-1 gives the nine
\* cells of the box (0..2, 0..2), row by row, with the states 0,1,0,0,0,1,1,1,1.
C30_UnknownVariant ==
    /\ UnknownRun =>
           /\ newres.kind = "Ok"
           /\ IsPrefix(Yielded(out), UnknownExpansion(toks, LastOrigin[1], LastOrigin[2], LastOrigin[1]))
           /\ NoneCount(out) > 0 =>
                  Yielded(out) = UnknownExpansion(toks, LastOrigin[1], LastOrigin[2], LastOrigin[1])
    /\ (OnlyAliveTags /\ newres.kind = "Ok") =>
           Returned(out) = RleItems(RleNew(input).value, Len(Returned(out)))
    /\ (dec = "rle_with_unknown" /\ input = GliderUnknown.lines) =>
           /\ Unwrap(rle).cxrle_data = Some([pos |-> Some(<<-1, -1>>), gen |-> None])
           /\ Unwrap(rle).header_data =
                  Some([x |-> 3, y |-> 3, rule |-> Some(Str(<<"B", "3", "/", "S", "2", "3">>))])
           /\ IsPrefix(Yielded(out), GliderUnknownCells)
           /\ NoneCount(out) > 0 => Yielded(out) = GliderUnknownCells

\* The glider of the test is decoded to its end.
C30_Witness ==
    /\ dec = "rle_with_unknown" /\ input = GliderUnknown.lines
    /\ Len(out) = 10 /\ Last(out) = NoneItem

\* A gap of two columns, then three dead cells.
C30_GapThenDead ==
    /\ UnknownRun /\ toks = <<Tok(2, "?"), Tok(3, "b"), Tok(0, "!")>>
    /\ out = <<OkCell(<<2, 0>>, 0), OkCell(<<3, 0>>, 0), OkCell(<<4, 0>>, 0), NoneItem>>

\* Alive tags with a prefix, as in Rle.
C30_AliveAsInRle ==
    /\ OnlyAliveTags /\ toks = <<Tok(0, "p"), Tok(0, "A"), Tok(2, "A")>>
    /\ out = <<OkCell(<<0, 0>>, 25), OkCell(<<1, 0>>, 1), OkCell(<<2, 0>>, 1), NoneItem>>

\* While the run counts stay inside i64 the first run is as long as its count.
C30_RunsOfNarrowCounts == NarrowCounts => C30_RunsOfAnyCount

---------------------------------------------------------------------------
(* C31: the errors of the state codes                                      *)

\* The bytes of the body that the decoder has read: the body lines before the line it
\* stands in, and the bytes of that line up to the one it stands behind.
BodyRead ==
    Flatten(BodyLines(SubSeq(input, 1, ErrLineNo - 1))) \o SubSeq(ErrLine, 1, ErrByteNo)

\* The bytes that are neither digits nor whitespace: the tags, letters and prefixes.
IsMark(c) == ~IsAsciiDigit(c) /\ ~IsAsciiWhitespace(c)
MarksOf(bs) == SelectSeq(bs, IsMark)

IsStateLetter(c) == c \in Ord["A"]..Ord["X"]
IsStatePrefix(c) == c \in Ord["p"]..Ord["y"]
IsRleTag(c) == c \in {Ord["b"], Ord["."], Ord["o"], Ord["$"], Ord["!"]}

\* The error that the last mark of ms is, given that the marks before it are none:
\* behind a prefix, a mark that is no letter A..X; otherwise a mark that is no tag, no
\* letter A..X and no prefix.  No error: <<>>.
StateError(ms) ==
    LET c == ms[Len(ms)]
    IN  IF Len(ms) >= 2 /\ IsStatePrefix(ms[Len(ms) - 1])
        THEN IF IsStateLetter(c) THEN <<>> ELSE <<ms[Len(ms) - 1], c>>
        ELSE IF IsRleTag(c) \/ IsStateLetter(c) \/ IsStatePrefix(c) THEN <<>> ELSE <<c>>

\* The decoder stands behind a mark of the body, and no pull before the last one has
\* returned an error or the end of the sequence, and none has aborted.
BehindMark ==
    /\ dec = "rle" /\ docs = <<>> /\ out # <<>> /\ IsSome(rle)
    /\ FirstStop(out) >= Len(out) /\ ~Aborted
    /\ IsSome(Unwrap(rle).current_line)
    /\ ~RleSkipsLine(ErrLine)
    /\ ErrByteNo \in 1..Len(ErrLine)
    /\ IsMark(ErrLine[ErrByteNo])

\* C31: the pull that reads a mark returns InvalidState exactly when the mark follows a
\* pending prefix p..y (digits and whitespace may lie between) and is no letter A..X
\* -- the error carries the prefix and the mark -- or follows no pending prefix and is
\* no tag, no letter A..X and no prefix -- the error carries the mark alone, and no
\* prefix is pending afterwards.
C31_InvalidState ==
    BehindMark =>
        LET e == StateError(MarksOf(BodyRead))
        IN  /\ e # <<>> => Last(out) = ErrItem("InvalidState", e)
            /\ e = <<>> => Last(out).kind # "Err"
            /\ Len(e) = 1 => Unwrap(rle).state_prefix = None

\* A prefix, a count, then a byte that is no letter A..X.
C31_Witness ==
    /\ BehindMark
    /\ BodyRead = Str(<<"o", "p", "2", "z">>)
    /\ out = <<OkCell(<<0, 0>>, 1), ErrItem("InvalidState", <<Ord["p"], Ord["z"]>>)>>

\* A byte outside the grammar with no prefix pending: a, z and Y are no prefixes.
C31_SingleByte ==
    /\ BehindMark
    /\ BodyRead = Str(<<"o", " ", "Y">>)
    /\ out = <<OkCell(<<0, 0>>, 1), ErrItem("InvalidState", <<Ord["Y"]>>)>>

---------------------------------------------------------------------------
(* C32: the remainder of a Plaintext document                              *)

\* The first k items of a Plaintext decoder in state s, pulled one after the other.
RECURSIVE PlaintextItems(_, _)
PlaintextItems(s, k) ==
    IF k = 0 THEN <<>>
    ELSE <<PlaintextNext(s).item>> \o PlaintextItems(PlaintextNext(s).self, k - 1)

\* The decoder is one that remains() has returned; Unread are the lines that the
\* decoder before it had not taken from the line source.
IsRemainder == dec = "plaintext" /\ docs # <<>>
Unread == Last(docs).lines

\* ls is the end of the input.
IsSuffix(ls) ==
    Len(ls) <= Len(input) /\ ls = SubSeq(input, Len(input) - Len(ls) + 1, Len(input))

\* C32: the decoder that remains() returns is the one Plaintext::new builds over the
\* lines that the original has not read, whatever the original has read of its
\* current line: these lines are the end of the input, the result and the items are
\* those of a decoder constructed on them, and when they are a grid the cells are the
\* cells of this grid counted from row 0 and column 0, its leading '!' lines being no rows.
C32_RemainsIsFresh ==
    IsRemainder =>
        /\ IsSuffix(Unread)
        /\ newres = [kind |-> "Ok"] /\ IsSome(plaintext)
        /\ out = PlaintextItems(PlaintextNew(Unread).value, Len(out))
        /\ out = <<>> => Unwrap(plaintext).position = <<0, 0>>
        /\ IsGrid(Unread) =>
               /\ IsPrefix(Yielded(out), GridCells(Rows(Unread), 0))
               /\ NoneCount(out) > 0 => Yielded(out) = GridCells(Rows(Unread), 0)

\* The first cell of a row is pulled, then remains() is called: the second cell of the
\* row is lost, the comment line is skipped, and the next row is row 0.
C32_Witness ==
    /\ IsRemainder /\ Len(docs) = 1
    /\ input = <<Str(<<"*", ".", "*">>), Str(<<"!", "O">>), Str(<<".", "O">>)>>
    /\ docs[1].out = <<OkCoord(<<0, 0>>)>>
    /\ Unread = <<Str(<<"!", "O">>), Str(<<".", "O">>)>>
    /\ Observed(out) = <<OkCoord(<<1, 0>>)>> /\ NoneCount(out) > 0

\* remains() after the end of the sequence: no line is left, the new decoder is empty.
C32_NothingLeft ==
    /\ IsRemainder /\ Len(docs) = 1
    /\ input = PlaintextGlider
    /\ NoneCount(docs[1].out) > 0 /\ Unread = <<>> /\ out = <<NoneItem>>

---------------------------------------------------------------------------
(* C33: one grid, two formats                                              *)

\* The positions of the alive cells of a grid, row by row, each row from left to right.
RECURSIVE AliveFrom(_, _)
AliveFrom(g, y) ==
    IF g = <<>> THEN <<>>
    ELSE LET xs == SelectSeq([x \in 1..Len(g[1]) |-> x], LAMBDA x : g[1][x] = 1)
         IN  [n \in 1..Len(xs) |-> <<xs[n] - 1, y>>] \o AliveFrom(Tail(g), y + 1)

\* The first k items of the other decoder over the other rendering of the grid.
OtherItems(k) ==
    IF dec = "rle"
    THEN PlaintextItems(PlaintextNew(PlaintextOfGrid(toks)).value, k)
    ELSE RleItems(RleNew(RleOfGrid(toks)).value, k)

\* Two items agree: both are cells, at one position, or both are the same other item.
SameCell(a, b) == a.kind = b.kind /\ (IF a.kind = "Ok" THEN a.position = b.position ELSE a = b)

\* C33: for a two-state grid, Rle over the run-length rendering and Plaintext over the
\* Plaintext rendering are built and give, pull by pull, cells at the same positions and
\* the end of the sequence at the same pull; the positions are those of the alive cells
\* of the grid, row by row.  The glider gives (1,0),(2,1),(0,2),(1,2),(2,2) in both.
C33_FormatsAgree ==
    dec \in {"rle", "plaintext"} =>
        /\ newres.kind = "Ok"
        /\ \A i \in 1..Len(out) : SameCell(out[i], OtherItems(Len(out))[i])
        /\ IsPrefix(PositionsOf(Yielded(out)), AliveFrom(toks, 0))
        /\ NoneCount(out) > 0 => PositionsOf(Yielded(out)) = AliveFrom(toks, 0)
        /\ (toks = GliderGrid /\ NoneCount(out) > 0) =>
               PositionsOf(Yielded(out)) = <<<<1, 0>>, <<2, 1>>, <<0, 2>>, <<1, 2>>, <<2, 2>>>>

\* The glider is decoded to its end from its run-length rendering bob$2bo$3o!
C33_Witness ==
    /\ dec = "rle" /\ toks = GliderGrid
    /\ input = <<Str(<<"b", "o", "b", "$", "2", "b", "o", "$", "3", "o", "!">>)>>
    /\ Len(out) = 6 /\ Last(out) = NoneItem

\* The glider is decoded to its end from its Plaintext rendering.
C33_PlaintextGlider ==
    /\ dec = "plaintext" /\ toks = GliderGrid
    /\ input = <<Str(<<".", "O", ".">>), Str(<<".", ".", "O">>), Str(<<"O", "O", "O">>)>>
    /\ Len(out) = 6 /\ Last(out) = NoneItem

---------------------------------------------------------------------------
(* C34: the run count of a token                                           *)

\* A body of tokens of the grammar in which every prefix is followed by a letter A..X:
\* no pull returns an error.
StateCodesRun ==
    /\ dec = "rle" /\ docs = <<>> /\ BodyIsToks /\ NarrowCounts
    /\ \A i \in 1..Len(input) : ~IsCxrleLine(input[i])
    /\ \A i \in 1..Len(toks) :
           /\ IsRleTag(toks[i].tag) \/ IsStateLetter(toks[i].tag) \/ IsStatePrefix(toks[i].tag)
           /\ IsStatePrefix(toks[i].tag) => (i < Len(toks) /\ IsStateLetter(toks[i + 1].tag))
    /\ \A i \in 1..Len(Returned(out)) : out[i].kind # "Err"

\* The positions of the cells when every token has its own count, 1 if none is written:
\* the count of a prefix, of a terminator or of any other token is not used by the next.
RECURSIVE CountPerToken(_, _, _)
CountPerToken(ts, x, y) ==
    IF ts = <<>> THEN <<>>
    ELSE LET t == Head(ts)
             n == Count(t)
         IN  IF t.tag = Ord["!"] THEN <<>>
             ELSE IF t.tag = Ord["b"] \/ t.tag = Ord["."] THEN CountPerToken(Tail(ts), x + n, y)
             ELSE IF t.tag = Ord["$"] THEN CountPerToken(Tail(ts), 0, y + n)
             ELSE IF IsStatePrefix(t.tag) THEN CountPerToken(Tail(ts), x, y)
             ELSE [i \in 1..n |-> <<x + i - 1, y>>] \o CountPerToken(Tail(ts), x + n, y)

\* The count n written behind a count k that was kept: the digits of n follow those of k.
Appended(k, n) == IF n = 0 THEN k ELSE IF n < 10 THEN 10 * k + n ELSE 100 * k + n

\* The positions of the cells when a prefix keeps its count (1 if none is written) for
\* the letter behind it, whose own digits are appended; k is the count kept, 0 if none.
RECURSIVE CountPerCode(_, _, _, _)
CountPerCode(ts, x, y, k) ==
    IF ts = <<>> THEN <<>>
    ELSE LET t == Head(ts)
             n == IF k = 0 THEN Count(t) ELSE Appended(k, t.n)
         IN  IF t.tag = Ord["!"] THEN <<>>
             ELSE IF t.tag = Ord["b"] \/ t.tag = Ord["."] THEN CountPerCode(Tail(ts), x + n, y, 0)
             ELSE IF t.tag = Ord["$"] THEN CountPerCode(Tail(ts), 0, y + n, 0)
             ELSE IF IsStatePrefix(t.tag) THEN CountPerCode(Tail(ts), x, y, n)
             ELSE [i \in 1..n |-> <<x + i - 1, y>>] \o CountPerCode(Tail(ts), x + n, y, 0)

\* C34, as stated: the run count of a token is the count written in front of it, 1 if
\* none, and the count is reset after every token, a prefix included: the cells are
\* those of the tokens with their own counts.
C34_CountPerToken ==
    StateCodesRun =>
        /\ IsPrefix(PositionsOf(Returned(Yielded(out))), CountPerToken(toks, 0, 0))
        /\ NoneCount(out) > 0 => PositionsOf(Yielded(out)) = CountPerToken(toks, 0, 0)

\* C34, amended: the run count is 1 when no digit is written; a dead tag, an alive tag
\* and a row separator reset it; a prefix keeps the count in force (the digits in front
\* of it, or 1) for the letter behind it, and digits written between the two are
\* appended to the count kept.
C34_CountPerStateCode ==
    StateCodesRun =>
        /\ IsPrefix(PositionsOf(Returned(Yielded(out))), CountPerCode(toks, 0, 0, 0))
        /\ (NoneCount(out) > 0 /\ ~Aborted) => PositionsOf(Yielded(out)) = CountPerCode(toks, 0, 0, 0)

\* The body op2A: the prefix has no count and the letter has the count 2; the pulls give
\* the cell of the o and then twelve cells.
C34_TwelveCells ==
    /\ StateCodesRun
    /\ toks = <<Tok(0, "o"), Tok(0, "p"), Tok(2, "A")>>
    /\ Len(out) = 14 /\ Last(out) = NoneItem
    /\ \A i \in 2..13 : out[i] = OkCell(<<i - 1, 0>>, 25)

\* The body 2pAo: the count in front of the prefix is the count of the letter.
C34_CountOfStateCode ==
    /\ StateCodesRun
    /\ toks = <<Tok(2, "p"), Tok(0, "A"), Tok(0, "o")>>
    /\ out = <<OkCell(<<0, 0>>, 25), OkCell(<<1, 0>>, 25), OkCell(<<2, 0>>, 1), NoneItem>>

---------------------------------------------------------------------------
(* C35: run counts of any length                                           *)

\* No state code of the input starts with y: no pull aborts in the 8-bit computation
\* of a state (C21).
NoWideState ==
    \A i \in 1..Len(input) :
        IF IsIoError(input[i]) THEN TRUE
        ELSE \A j \in 1..Len(input[i]) : input[i][j] # Ord["y"]

\* C35: whatever the number of digits of a run count, no pull aborts in the arithmetic
\* of the count, and the count, the pending run and the cursor are never the wrapped
\* values of an overflow: here, they never fall below what the decoder started with.
C35_NoArithmeticOverflow ==
    (dec = "rle" /\ docs = <<>> /\ NoWideState) =>
        /\ ~Aborted
        /\ IsSome(rle) =>
               /\ Unwrap(rle).run_count >= 0
               /\ Unwrap(rle).alive_count >= 0
               /\ Unwrap(rle).position[1] >= Unwrap(rle).x_start
               /\ Unwrap(rle).position[2] >= LastOrigin[2]

\* While the run counts stay inside i64 there is no overflow.
C35_NarrowCountsFit == NarrowCounts => C35_NoArithmeticOverflow

\* The body 18446744073709551614bo in a build with overflow checks: the first pull aborts
\* while the digits are read.
C35_DigitsAbort ==
    /\ dec = "rle"
    /\ input = <<WideMinusTwo \o Str(<<"b", "o">>)>>
    /\ out = <<PanicItem>>

\* The same body in a build without overflow checks: the count is -2 and the cell of
\* the o lies two columns left of the start.
C35_WrappedCount ==
    /\ dec = "rle"
    /\ input = <<WideMinusTwo \o Str(<<"b", "o">>)>>
    /\ out = <<OkCell(<<-2, 0>>, 1)>>

\* 18446744073709551618o in a build without overflow checks: two cells, then the end.
C35_TwoCellsOfWideRun ==
    /\ dec = "rle"
    /\ input = <<WidePlusTwo \o Str(<<"o">>)>>
    /\ out = <<OkCell(<<0, 0>>, 1), OkCell(<<1, 0>>, 1), NoneItem>>

---------------------------------------------------------------------------
(* C36: pulls after the end of the sequence                                *)

\* Nothing but end-of-sequence follows an end-of-sequence.
FusedOut ==
    \A i \in 1..Len(out) : \A j \in i..Len(out) :
        out[i].kind = "None" => out[j].kind = "None"

\* C36: every decoder is fused: once a pull has returned end-of-sequence, every later
\* pull on the same decoder returns end-of-sequence too; for Rle also when bytes or
\* lines follow the ! of the body.
C36_Fused == docs = <<>> => FusedOut

\* Plaintext, Wechsler and Macrocell are fused over a line source that is.
C36_FusedButRle == (docs = <<>> /\ dec # "rle") => FusedOut

\* What the decoder has not read is blank.
RleNothingLeft(s) ==
    LET left == (IF IsSome(s.current_line) THEN <<Unwrap(s.current_line)>> ELSE <<>>) \o s.lines
    IN  \A i \in 1..Len(left) : IF IsIoError(left[i]) THEN FALSE
                                 ELSE \A j \in 1..Len(left[i]) : IsAsciiWhitespace(left[i][j])

\* Rle stays at its end when nothing but blanks is left behind the end of the sequence:
\* a pull after an end-of-sequence with nothing left returns end-of-sequence again.
C36_RleAtItsEnd ==
    [][(dec = "rle" /\ IsSome(rle) /\ docs = <<>> /\ out # <<>>) =>
           ((Last(out).kind = "None" /\ RleNothingLeft(Unwrap(rle))) => Last(out').kind = "None")]_vars

\* The body o!o: the pull after the end of the sequence gives the cell behind the !.
C36_CellAfterEnd ==
    /\ dec = "rle"
    /\ input = <<Str(<<"o", "!", "o">>)>>
    /\ out = <<OkCell(<<0, 0>>, 1), NoneItem, OkCell(<<1, 0>>, 1)>>

\* A line behind the line of the ! is decoded by the pulls after the end.
C36_LineAfterEnd ==
    /\ dec = "rle"
    /\ Len(input) = 2
    /\ NoneCount(out) >= 1
    /\ IsSome(rle)
    /\ Unwrap(rle).lines = <<>>
    /\ \E i \in 1..Len(out) : \E j \in i..Len(out) :
           /\ out[i].kind = "None"
           /\ out[j].kind = "Ok"
           /\ out[j].position[2] > 0

\* Three pulls of Plaintext, Wechsler and Macrocell at their ends give three times None.
C36_PlaintextStaysEnded == dec = "plaintext" /\ input # <<>> /\ NoneCount(out) = 3 /\ Len(out) > 3
C36_WechslerStaysEnded == dec = "wechsler" /\ NoneCount(out) = 3 /\ Len(out) > 3
C36_MacrocellStaysEnded == dec = "macrocell" /\ NoneCount(out) = 3 /\ Len(out) > 3

---------------------------------------------------------------------------
(* C37: a run count written as 0                                           *)

\* The decoder of the same tokens with no 0 written.
Unzeroed == RleNew(<<RenderToks(toks)>>).value

\* The decoder after k pulls.
RECURSIVE RleAfter(_, _)
RleAfter(s, k) == IF k = 0 THEN s ELSE RleAfter(RleNext(s).self, k - 1)

\* What a decoder holds besides the bytes it has not read.
Cursor(s) == <<s.position, s.x_start, s.state, s.state_prefix, s.alive_count>>

\* Some count of the tokens is written as 0 or starts with 0.
ZeroWritten == \E i \in 1..Len(toks) : toks[i].z > 0

\* The alive tags among the tokens before the first !.
AliveTags ==
    {i \in 1..Len(toks) : /\ toks[i].tag \in {Ord["o"], Ord["A"]}
                          /\ \A j \in 1..i : toks[j].tag # Ord["!"]}

\* C37: a run count written as 0 is a run count not written: the items and the cursor
\* are those of the same body without the zeros (0o one cell, 0b one column, 0$ one
\* row); every alive tag gives at least one cell, and the pending run is never negative.
C37_ZeroIsAbsent ==
    (dec = "rle" /\ IsSome(rle)) =>
        /\ toks # <<>> =>
               /\ out = RleItems(Unzeroed, Len(out))
               /\ Cursor(Unwrap(rle)) = Cursor(RleAfter(Unzeroed, Len(out)))
               /\ NoneCount(out) > 0 => Len(Yielded(out)) >= Cardinality(AliveTags)
        /\ Unwrap(rle).alive_count >= 0

\* While the run counts stay inside i64 the claim holds.
C37_ZeroIsAbsentOfNarrowCounts == NarrowCounts => C37_ZeroIsAbsent

\* 18446744073709551614o in a build without overflow checks: one cell, and a pending run of -3.
C37_NegativePending ==
    /\ dec = "rle"
    /\ input = <<WideMinusTwo \o Str(<<"o">>)>>
    /\ out = <<OkCell(<<0, 0>>, 1)>>
    /\ Unwrap(rle).alive_count = -3

\* 0o: one cell.
C37_ZeroAlive ==
    /\ dec = "rle"
    /\ input = <<Str(<<"0", "o">>)>>
    /\ out = <<OkCell(<<0, 0>>, 1), NoneItem>>

\* 0b0$00o: the cell is one row down; 0b00o: one column right.
C37_ZeroRow ==
    /\ dec = "rle"
    /\ input = <<Str(<<"0", "b", "0", "$", "0", "0", "o">>)>>
    /\ out = <<OkCell(<<0, 1>>, 1), NoneItem>>
C37_ZeroDead ==
    /\ dec = "rle"
    /\ input = <<Str(<<"0", "b", "0", "0", "o">>)>>
    /\ out = <<OkCell(<<1, 0>>, 1), NoneItem>>

---------------------------------------------------------------------------
(* C38: the variant with unknown cells on bodies without '?'               *)

\* No line of the input holds a '?'.
NoUnknownTag ==
    \A i \in 1..Len(input) :
        IF IsIoError(input[i]) THEN TRUE
        ELSE \A j \in 1..Len(input[i]) : input[i][j] # Ord["?"]

\* The items without the cells of state 0.
WithoutDead(items) == SelectSeq(items, LAMBDA it : ~(it.kind = "Ok" /\ it.state = 0))

\* What a decoder has not read.
RleUnread(s) == <<s.current_line, s.lines>>

\* C38: on an input without '?', the items of RleWithUnknown without its cells of
\* state 0 are the items of Rle on the same input, and an error is returned at the
\* same byte by both.
C38_KnownCellsAsInRle ==
    (dec = "rle_with_unknown" /\ IsSome(rle) /\ NoUnknownTag) =>
        LET known == WithoutDead(out)
            plain == RleNew(input).value
        IN  /\ known = RleItems(plain, Len(known))
            /\ (IF out = <<>> THEN FALSE ELSE Last(out).kind = "Err") =>
                   RleUnread(Unwrap(rle)) = RleUnread(RleAfter(plain, Len(known)))

\* The claim holds while the run counts stay inside i64 and no state code starts with y.
C38_OfNarrowCountsAndStates == (NarrowCounts /\ NoWideState) => C38_KnownCellsAsInRle

\* yP in a build without overflow checks: the state 256 wraps to 0; Rle gives this
\* cell, and it is no cell at all once the cells of state 0 are removed.
C38_WrappedStateIsDead ==
    /\ dec = "rle_with_unknown"
    /\ input = <<Str(<<"y", "P">>)>>
    /\ out = <<OkCell(<<0, 0>>, 0), NoneItem>>
    /\ RleItems(RleNew(input).value, 2) = out

\* 18446744073709551614bo in a build without overflow checks: the cell of the o is at
\* (1,0) where Rle has it at (-2,0).
C38_WrappedDeadRun ==
    /\ dec = "rle_with_unknown"
    /\ input = <<WideMinusTwo \o Str(<<"b", "o">>)>>
    /\ out = <<OkCell(<<0, 0>>, 0), OkCell(<<1, 0>>, 1)>>
    /\ RleItems(RleNew(input).value, 1) = <<OkCell(<<-2, 0>>, 1)>>

\* b2Az: two dead cells less, and the error at the z in both.
C38_SameError ==
    /\ dec = "rle_with_unknown"
    /\ input = <<Str(<<"b", "2", "A", "z">>)>>
    /\ out = <<OkCell(<<0, 0>>, 0), OkCell(<<1, 0>>, 1), OkCell(<<2, 0>>, 1), ErrItem("InvalidState", Str(<<"z">>))>>

---------------------------------------------------------------------------
(* C39: termination                                                        *)

\* The run has a decoder to pull from.
Built == IsSome(rle) \/ IsSome(plaintext) \/ IsSome(wechsler) \/ IsSome(macrocell)

\* The constructor has failed: there is nothing to pull from.
Unbuilt == newres.kind # "Ok"

\* A pull has returned end-of-sequence.
Ended == NoneCount(out) >= 1

\* What a line-based decoder has not consumed: the bytes of its current line, and its
\* lines with their ends.
LinesLeft(s) ==
    (IF IsSome(s.current_line) THEN Len(Unwrap(s.current_line)) + 1 ELSE 0)
    + Len(Flatten(s.lines)) + Len(s.lines)

\* What each decoder has left to do, in the order of its loop: input first, then the
\* pending alive run or the rest of the strip.
Left ==
    IF IsSome(rle)
    THEN <<LinesLeft(Unwrap(rle)), IF Unwrap(rle).alive_count > 0 THEN Unwrap(rle).alive_count ELSE 0>>
    ELSE IF IsSome(plaintext) THEN <<LinesLeft(Unwrap(plaintext)), 0>>
    ELSE IF IsSome(wechsler) THEN <<Len(Unwrap(wechsler).bytes), 5 - Unwrap(wechsler).index>>
    ELSE IF IsSome(macrocell) THEN <<LinesLeft(Unwrap(macrocell)), 0>>
    ELSE <<0, 0>>

Less(a, b) == a[1] < b[1] \/ (a[1] = b[1] /\ a[2] < b[2])

\* C39: on a finite input every pull returns, and repeated pulling comes to a pull
\* that returns end-of-sequence.
C39_EventuallyEnds == <>(Unbuilt \/ Ended)

\* Repeated pulling comes to the end of the sequence or to a pull that aborts.
C39_EndsOrAborts == <>(Unbuilt \/ Ended \/ Aborted)

\* Every pull that returns has consumed a byte or a line, or has taken one cell off the
\* pending run or one row off the strip; a pull that consumes nothing returns
\* end-of-sequence.
C39_PullConsumes ==
    [][Built =>
          IF Built'
          THEN \/ Less(Left', Left)
               \/ Left' = Left /\ Last(out').kind = "None"
          ELSE Last(out').kind = "Panic"]_vars

\* The run is not one of Rle on a count beyond i64 or a state code beyond 8 bits.
NoOverflow == dec # "rle" \/ (NarrowCounts /\ NoWideState)

\* Without the overflows of C21 and C35 every run comes to its end.
C39_EndsWithoutOverflow == <>(Unbuilt \/ Ended \/ ~NoOverflow)

\* yP in a build with overflow checks: the first pull aborts, and no pull follows.
C39_AbortedBeforeEnd ==
    /\ dec = "rle"
    /\ input = <<Str(<<"y", "P">>)>>
    /\ out = <<PanicItem>>
    /\ ~ENABLED Pulls

\* The glider of rle_glider: five cells, then the end.
C39_GliderEnds ==
    /\ dec = "rle"
    /\ toks = GliderToks
    /\ Len(out) = 6
    /\ Ended

---------------------------------------------------------------------------
(* C40: comment and header lines behind the first line of the body         *)

\* The positions of the lines behind the first body line that start with '#', "x " or "x=".
LateAt == {i \in (RleBodyStart + 1)..Len(input) : RleIsLeading(input[i])}

\* The lines without those in the set of positions.
RECURSIVE LinesWithout(_, _, _)
LinesWithout(ls, at, i) ==
    IF i > Len(ls) THEN <<>>
    ELSE (IF i \in at THEN <<>> ELSE <<ls[i]>>) \o LinesWithout(ls, at, i + 1)

\* The lines that are left of a sequence of unread lines.
Kept(ls) == SelectSeq(ls, LAMBDA l : ~RleIsLeading(l))

\* C40: a line behind the first line of the body that starts with '#', "x " or "x=" is
\* skipped unparsed: the items are those of the input without these lines, and so are
\* header_data, cxrle_data, the position, the start column, the run count, the pending
\* prefix and the rest of the decoder after every pull.
C40_LateLinesSkipped ==
    (RleBuilt /\ LateAt # {}) =>
        LET plain == RleNew(LinesWithout(input, LateAt, 1)).value
            after == RleAfter(plain, Len(out))
            s     == Unwrap(rle)
        IN  /\ out = RleItems(plain, Len(out))
            /\ s.header_data = LastHeaderData /\ s.cxrle_data = LastCxrleData
            /\ [s EXCEPT !.lines = Kept(@)] = [after EXCEPT !.lines = Kept(@)]

\* The lines p, `x = a, y = 3`, A: the line that is no header is passed, the prefix
\* stays pending, and the cell has state 25.
C40_Witness ==
    /\ dec = "rle"
    /\ input = <<Str(<<"p">>), Str(<<"x", " ", "=", " ", "a", ",", " ", "y", " ", "=", " ", "3">>), Str(<<"A">>)>>
    /\ out = <<OkCell(<<0, 0>>, 25), NoneItem>>

\* The lines `x = 3, y = 3`, 2, `#CXRLE Pos=-1,-1`, o: the count stays, the origin and
\* the header are those of the construction.
C40_CountAcrossLine ==
    /\ dec = "rle"
    /\ input = <<HeaderNoRule, Str(<<"2">>), GliderCxrle, Str(<<"o">>)>>
    /\ out = <<OkCell(<<0, 0>>, 1), OkCell(<<1, 0>>, 1), NoneItem>>
    /\ Unwrap(rle).cxrle_data = None
    /\ Unwrap(rle).header_data = parse_header(HeaderNoRule)

=============================================================================
